---- MODULE Spec2Model ----
(***************************************************************************)
(* Model of the transcription library: the TranscriptionManager (registry, *)
(* lazy initialization, fallback chain), the three providers' transcribe   *)
(* and initialize methods with their content-hash caches, and the global   *)
(* settings object.                                                        *)
(*                                                                         *)
(* A transcribe_audio call is a coroutine.  It is modelled as a flow that  *)
(* advances from one await that really suspends (run_in_executor,          *)
(* wait_for) to the next.  A flow between two such awaits holds the event   *)
(* loop (Busy): until it suspends or ends, no other flow and no other      *)
(* operation can take a step, which is asyncio's scheduling.               *)
(*                                                                         *)
(* Confidences are in thousandths (0.6 is 600).  A text is a sequence of   *)
(* tokens; each token stands for a run of characters (see TokenLen).       *)
(***************************************************************************)
EXTENDS Integers, Sequences, FiniteSets, TLC

\* ---------------------------------------------------------------- bounds

\* Number of operations begun in one behaviour: transcribe_audio calls and
\* registry, configuration and cache operations together.
MaxSteps == 4

\* Number of registry, configuration and cache operations in a behaviour in
\* which calls and operations interleave (each flow makes one call there).
MaxConcSteps == 1

\* ------------------------------------------------------------ the universe

\* Python's None, for the optional string fields.
Null == "<null>"

\* Python's None, for an optional number.
NoNumber == 0 - 1

\* Registry keys used by the configuration (core/config.py) and by get_name.
Names == {"distil-whisper-pt", "faster-whisper", "gemini-hybrid"}

\* Provider objects that exist in the process; each is of one class.
Instances == {"d1", "f1", "g1"}

KindOf(i) ==
  CASE i = "d1" -> "distil"
    [] i = "f1" -> "faster"
    [] OTHER -> "gemini"

\* DistilWhisperProvider.get_name / FasterWhisperProvider.get_name /
\* GeminiProvider.get_name
get_name(i) ==
  CASE KindOf(i) = "distil" -> "distil-whisper-pt"
    [] KindOf(i) = "faster" -> "faster-whisper"
    [] OTHER -> "gemini-hybrid"

\* Flows (coroutines) that can run transcribe_audio at the same time.
CallIds == {1, 2}

\* What callers ask for: a file and a language code.
Requests ==
  { <<"a.wav", "pt">>, <<"a.wav", "en">>, <<"b.wav", "pt">>,
    <<"v.mp4", "pt">>, <<"n.txt", "en">>, <<"x.wav", "pt">> }

\* The same for the behaviours in which calls interleave.
ConcRequests == { <<"a.wav", "pt">>, <<"n.txt", "en">>, <<"x.wav", "pt">> }

\* Registrations made while calls are in flight.
ConcRegistrations ==
  { <<"distil-whisper-pt", "f1">>, <<"faster-whisper", "g1">>,
    <<"gemini-hybrid", "g1">> }

\* What is registered under which name: each provider under its own name
\* (as the tests do), and another provider under a name already used.
Registrations ==
  { <<"distil-whisper-pt", "d1">>, <<"faster-whisper", "f1">>,
    <<"gemini-hybrid", "g1">>, <<"distil-whisper-pt", "f1">>,
    <<"faster-whisper", "g1">> }

\* Values of settings.CONFIDENCE_THRESHOLD: the default 0.6 and the 0.95 the
\* integration test sets.
Thresholds == {600, 950}

\* Values of settings.FALLBACK_PROVIDERS.
FallbackChoices ==
  { <<"faster-whisper", "gemini-hybrid">>,
    <<"distil-whisper-pt">>,
    <<>> }

\* Files the caller can pass: a path, whether it can be opened, its bytes
\* (a sequence of 4096-byte chunks, each named by a small number).
Files ==
  { [name |-> "a.wav", readable |-> TRUE,  content |-> <<1>>],
    [name |-> "b.wav", readable |-> TRUE,  content |-> <<1>>],
    [name |-> "v.mp4", readable |-> TRUE,  content |-> <<2>>],
    [name |-> "n.txt", readable |-> TRUE,  content |-> <<2>>],
    [name |-> "x.wav", readable |-> FALSE, content |-> <<>>] }

\* The file a path names.
FileNamed(name) == CHOOSE f \in Files : f.name = name

\* mimetypes.guess_type on the path's extension, reduced to its major type.
guess_type(name) ==
  CASE name \in {"a.wav", "b.wav", "x.wav"} -> "audio"
    [] name = "v.mp4" -> "video"
    [] OTHER -> Null

\* get_file_hash: the digest is fed chunk by chunk; the digest of the model
\* is injective on the bounded contents (MD5 idealised as collision-free).
RECURSIVE md5_update(_, _)
md5_update(h, chunks) ==
  IF chunks = <<>> THEN h
  ELSE md5_update(h * 4 + Head(chunks) + 1, Tail(chunks))

get_file_hash(f) == md5_update(0, f.content)

\* ------------------------------------------------------------------ texts

\* The longest text, in tokens, the heuristics are tried on.
MaxTextLen == 3

\* What a text is made of: white space, a short word, a failure phrase, a
\* structured marker, a long sentence.
Tokens == {" ", "ola", "erro", "[FALA]:", "frase-longa"}

\* Every text of at most MaxTextLen tokens.
Texts == UNION { [1..n -> Tokens] : n \in 0..MaxTextLen }

\* Number of characters each token stands for.
TokenLen(t) ==
  CASE t = " " -> 1
    [] t = "ola" -> 3
    [] t = "erro" -> 4
    [] t = "[FALA]:" -> 7
    [] OTHER -> 60          \* "frase-longa": a sentence of 60 characters

IsSpace(t) == t = " "

RECURSIVE lstrip(_)
lstrip(s) == IF s # <<>> /\ IsSpace(Head(s)) THEN lstrip(Tail(s)) ELSE s

RECURSIVE rstrip(_)
rstrip(s) ==
  IF s # <<>> /\ IsSpace(s[Len(s)]) THEN rstrip(SubSeq(s, 1, Len(s) - 1)) ELSE s

\* str.strip()
strip(s) == rstrip(lstrip(s))

RECURSIVE str_len(_)
str_len(s) == IF s = <<>> THEN 0 ELSE TokenLen(Head(s)) + str_len(Tail(s))

Contains(s, t) == \E k \in 1..Len(s) : s[k] = t

\* " ".join(parts)
RECURSIVE join(_)
join(parts) ==
  IF parts = <<>> THEN <<>>
  ELSE IF Len(parts) = 1 THEN Head(parts)
  ELSE Head(parts) \o <<" ">> \o join(Tail(parts))

\* --------------------------------------------------------------- results

\* TranscriptionResult.segments: None (the default), or a list of segments.
NoSegments == [is_none |-> TRUE, items |-> <<>>]

SegmentList(items) == [is_none |-> FALSE, items |-> items]

\* TranscriptionResult (core/interfaces.py), segments left at its default
TranscriptionResult(text, confidence, processing_time, model_used, language, error_message) ==
  [ text |-> text, confidence |-> confidence,
    processing_time |-> processing_time, model_used |-> model_used,
    language |-> language, segments |-> NoSegments,
    error_message |-> error_message ]

\* TranscriptionResult(..., segments=segments)
WithSegments(r, segments) == [r EXCEPT !.segments = segments]

\* No Result (a slot that holds nothing yet).
NoResult == TranscriptionResult(<<>>, 0, 0, Null, Null, Null)

\* Python truthiness of result.error_message (None and "" are falsy).
Truthy(s) == s # Null /\ s # ""

\* ------------------------------------------------- what an engine returns

\* Each engine outcome below carries `seconds`, the time.time() - start_time
\* the provider measures around it.

\* The transformers pipeline's return value for DistilWhisperProvider:
\* it raises, or returns a dict with or without "text", with "chunks" whose
\* entries may or may not carry a "confidence" and a "timestamp"; a
\* timestamp is a pair (start, end) in hundredths of a second, of which the
\* pipeline leaves the end None (NoNumber) when it could not place it.
DistilOutputs ==
  { [exc |-> TRUE,  has_text |-> FALSE, text |-> <<>>, chunks |-> <<>>,
       seconds |-> 1],
    [exc |-> FALSE, has_text |-> FALSE, text |-> <<>>, chunks |-> <<>>,
       seconds |-> 1],
    [exc |-> FALSE, has_text |-> TRUE,  text |-> <<" ">>, chunks |-> <<>>,
       seconds |-> 1],
    [exc |-> FALSE, has_text |-> TRUE,  text |-> <<"ola", " ">>,
       chunks |-> <<>>, seconds |-> 3],
    [exc |-> FALSE, has_text |-> TRUE,  text |-> <<"ola">>,
       chunks |-> << [has_confidence |-> TRUE, confidence |-> 600,
                      has_timestamp |-> TRUE, timestamp |-> <<0, 200>>,
                      text |-> <<"ola">>] >>,
       seconds |-> 4],
    [exc |-> FALSE, has_text |-> TRUE,  text |-> <<"frase-longa">>,
       chunks |-> << [has_confidence |-> FALSE, confidence |-> 0,
                      has_timestamp |-> TRUE, timestamp |-> <<0, 300>>,
                      text |-> <<"frase">>],
                     [has_confidence |-> TRUE, confidence |-> 250,
                      has_timestamp |-> TRUE, timestamp |-> <<300, NoNumber>>,
                      text |-> <<"longa">>] >>,
       seconds |-> 9] }

\* WhisperModel.transcribe's return value for FasterWhisperProvider: it
\* raises, or returns the segments' texts with their (start, end) times in
\* hundredths of a second, and an info object whose language_probability and
\* language may be None (NoNumber, Null).
FasterOutputs ==
  { [exc |-> TRUE,  segments |-> <<>>, times |-> <<>>,
       language_probability |-> NoNumber, language |-> Null, seconds |-> 1],
    [exc |-> FALSE, segments |-> << <<"ola">>, <<"frase-longa">> >>,
       times |-> << <<0, 120>>, <<120, 480>> >>,
       language_probability |-> 950, language |-> "pt", seconds |-> 7],
    [exc |-> FALSE, segments |-> << <<"ola">> >>, times |-> << <<50, 50>> >>,
       language_probability |-> NoNumber, language |-> Null, seconds |-> 3],
    [exc |-> FALSE, segments |-> <<>>, times |-> <<>>,
       language_probability |-> 0, language |-> "en", seconds |-> 2] }

\* The outcome of GeminiProvider's remote work: the upload of a video
\* (None on failure), then generate_content under asyncio.wait_for, which
\* times out, raises, or returns a response whose text may be empty.
GeminiOutputs ==
  { [upload_ok |-> FALSE, outcome |-> "exc",     text |-> <<>>,
       seconds |-> 1],
    [upload_ok |-> TRUE,  outcome |-> "timeout", text |-> <<>>,
       seconds |-> 300],
    [upload_ok |-> TRUE,  outcome |-> "exc",     text |-> <<>>,
       seconds |-> 1],
    [upload_ok |-> TRUE,  outcome |-> "ok",      text |-> <<>>,
       seconds |-> 1],
    [upload_ok |-> TRUE,  outcome |-> "ok",      text |-> <<" ">>,
       seconds |-> 2],
    [upload_ok |-> TRUE,  outcome |-> "ok",
       text |-> <<"[FALA]:", "frase-longa">>, seconds |-> 6],
    [upload_ok |-> TRUE,  outcome |-> "ok",      text |-> <<"erro">>,
       seconds |-> 2] }

EngineOutputs(kind) ==
  CASE kind = "distil" -> DistilOutputs
    [] kind = "faster" -> FasterOutputs
    [] OTHER -> GeminiOutputs

AllOutputs == DistilOutputs \cup FasterOutputs \cup GeminiOutputs

\* The engine outcomes of the behaviours in which calls interleave: for each
\* engine it raises, or it returns a text (one of two for the Distil pipeline,
\* so that two calls on the same content can get different Results).
ConcOutputs ==
  { out \in DistilOutputs : out.exc \/ (out.text \in {<<"ola", " ">>, <<"ola">>}) }
    \cup { out \in FasterOutputs : out.exc \/ out.language_probability = 950 }
    \cup { out \in GeminiOutputs :
             out.upload_ok /\ (out.outcome = "exc" \/ Len(out.text) = 2) }

RECURSIVE SumConfidences(_)
SumConfidences(chunks) ==
  IF chunks = <<>> THEN 0
  ELSE (IF Head(chunks).has_confidence THEN Head(chunks).confidence ELSE 850)
       + SumConfidences(Tail(chunks))

\* DistilWhisperProvider._calculate_confidence
\* (the bounded chunk lists make the mean a whole number of thousandths)
distil_calculate_confidence(out) ==
  IF out.chunks # <<>> THEN SumConfidences(out.chunks) \div Len(out.chunks)
  ELSE 870

\* `x if x else 0.0` on a timestamp bound: None and 0.0 are falsy.
OrZero(x) == IF x = NoNumber \/ x = 0 THEN 0 ELSE x

\* DistilWhisperProvider._extract_segments, the loop over the chunks
RECURSIVE ChunkSegments(_)
ChunkSegments(chunks) ==
  IF chunks = <<>> THEN <<>>
  ELSE LET chunk == Head(chunks) IN
       (IF chunk.has_timestamp
        THEN << [ start |-> OrZero(chunk.timestamp[1]),
                  end |-> OrZero(chunk.timestamp[2]),
                  text |-> chunk.text,
                  confidence |-> IF chunk.has_confidence THEN chunk.confidence
                                 ELSE 850 ] >>
        ELSE <<>>)
       \o ChunkSegments(Tail(chunks))

\* DistilWhisperProvider._extract_segments: None when no segment was found
extract_segments(out) ==
  IF ChunkSegments(out.chunks) = <<>> THEN NoSegments
  ELSE SegmentList(ChunkSegments(out.chunks))

\* FasterWhisperProvider.transcribe 113-123: segments_metadata (the times of
\* the model are whole hundredths, which round(x, 2) leaves as they are)
segments_metadata(out) ==
  SegmentList([k \in 1..Len(out.segments) |->
                 [ start |-> out.times[k][1], end |-> out.times[k][2],
                   text |-> out.segments[k], confidence |-> 800 ]])

Min(a, b) == IF a < b THEN a ELSE b
Max(a, b) == IF a > b THEN a ELSE b

\* Variant: a short answer is not penalised.
calculate_gemini_confidence_any_length(text) ==
  LET c0 == 800
      c1 == IF Contains(text, "[FALA]:") THEN c0 + 100 ELSE c0
      c3 == IF Contains(text, "erro") THEN c1 - 400 ELSE c1
  IN  Max(100, Min(950, c3))

\* GeminiProvider._calculate_gemini_confidence
\* ("erro" stands for any of the three failure phrases, "[FALA]:" for any of
\* the three markers)
calculate_gemini_confidence(text) ==
  LET c0 == 800
      c1 == IF Contains(text, "[FALA]:") THEN c0 + 100 ELSE c0
      c2 == IF str_len(strip(text)) < 50 THEN c1 - 200 ELSE c1
      c3 == IF Contains(text, "erro") THEN c2 - 400 ELSE c2
  IN  Max(100, Min(950, c3))

\* The Result each provider returns when its model is not loaded
\* (distil 110-115, faster 82-87, gemini 56-61).
NotInitializedResult(i, language) ==
  TranscriptionResult(<<>>, 0, 0, get_name(i),
                      IF KindOf(i) = "distil" THEN "pt-BR" ELSE language,
                      "initialization failed")

\* Variant: the Result carries the language the caller asked for.
DistilResultEchoesLanguage(i, language, out) ==
  IF out.exc \/ ~out.has_text \/ strip(out.text) = <<>>
  THEN TranscriptionResult(<<>>, 0, out.seconds, get_name(i), language,
                           "transcription failed")
  ELSE WithSegments(
         TranscriptionResult(strip(out.text), distil_calculate_confidence(out),
                             out.seconds, get_name(i), language, Null),
         extract_segments(out))

\* Variant: the error Result keeps the text the pipeline gave.
DistilResultKeepsText(i, language, out) ==
  IF out.exc \/ ~out.has_text \/ strip(out.text) = <<>>
  THEN TranscriptionResult(out.text, 0, out.seconds, get_name(i), "pt-BR",
                           "transcription failed")
  ELSE WithSegments(
         TranscriptionResult(strip(out.text), distil_calculate_confidence(out),
                             out.seconds, get_name(i), "pt-BR", Null),
         extract_segments(out))

\* DistilWhisperProvider.transcribe, from the pipeline's return to the Result
DistilResult(i, language, out) ==
  IF out.exc \/ ~out.has_text \/ strip(out.text) = <<>>
  THEN TranscriptionResult(<<>>, 0, out.seconds, get_name(i), "pt-BR",
                           "transcription failed")
  ELSE WithSegments(
         TranscriptionResult(strip(out.text), distil_calculate_confidence(out),
                             out.seconds, get_name(i), "pt-BR", Null),
         extract_segments(out))

\* FasterWhisperProvider.transcribe, from the engine's return to the Result
FasterResult(i, language, out) ==
  IF out.exc
  THEN TranscriptionResult(<<>>, 0, out.seconds, get_name(i), language,
                           "transcription failed")
  ELSE WithSegments(
         TranscriptionResult(
           strip(join(out.segments)),
           IF out.language_probability # NoNumber THEN out.language_probability
           ELSE 800,
           out.seconds, get_name(i),
           IF out.language # Null THEN out.language ELSE language,
           Null),
         segments_metadata(out))

\* GeminiProvider._transcribe_audio_with_gemini / _transcribe_video_with_gemini
GeminiResult(i, language, media, out) ==
  LET model_used == IF media = "audio" THEN "gemini-hybrid-audio"
                    ELSE "gemini-hybrid-video"
  IN
  IF media = "video" /\ ~out.upload_ok
  THEN TranscriptionResult(<<>>, 0, out.seconds, model_used, language,
                           "transcription failed")
  ELSE IF out.outcome = "timeout"
  THEN TranscriptionResult(<<>>, 0, out.seconds, model_used, language, "timed out")
  ELSE IF out.outcome = "exc" \/ out.text = <<>>
  THEN TranscriptionResult(<<>>, 0, out.seconds, model_used, language,
                           "transcription failed")
  ELSE TranscriptionResult(strip(out.text),
                           calculate_gemini_confidence(strip(out.text)),
                           out.seconds, model_used, language, Null)

\* The Result a provider builds from what its engine returned.
EngineResult(i, language, f, out) ==
  CASE KindOf(i) = "distil" -> DistilResult(i, language, out)
    [] KindOf(i) = "faster" -> FasterResult(i, language, out)
    [] OTHER -> GeminiResult(i, language, guess_type(f.name), out)

\* GeminiProvider.transcribe, lines 77-84
UnsupportedResult(i, language) ==
  TranscriptionResult(<<>>, 0, 0, get_name(i), language,
                      "Unsupported file type")

\* Variant: the synthetic Result carries a fixed language instead of the
\* caller's.
ExhaustedResultFixedLanguage(language) ==
  TranscriptionResult(<<>>, 0, 0, "None", "pt",
                      "All configured transcription providers failed")

\* TranscriptionManager.transcribe_audio, lines 90-96
ExhaustedResult(language) ==
  TranscriptionResult(<<>>, 0, 0, "None", language,
                      "All configured transcription providers failed")

\* ------------------------------------------------------------------ state

VARIABLES
  providers,               \* TranscriptionManager._providers: name -> instance
  initialized_providers,   \* TranscriptionManager._initialized_providers
  settings,                \* core.config.settings (the three manager options)
  initialization_complete, \* per instance: provider.initialization_complete
  transcription_cache,     \* per instance: provider.transcription_cache
  calls,                   \* per flow: the coroutine's position and locals
  served,                  \* history: per instance and content, the Result the
                           \* provider last returned since its last clear_cache
  init_history,            \* history: per registered name, how the last
                           \* initialize the manager called since the name's
                           \* registration went ("none": not called yet)
  kept,                    \* history: the names that were marked when
                           \* shutdown last ran and were not registered
                           \* again since
  reply,                   \* what the manager operation that completed
                           \* last gave its caller (NoReply once anything
                           \* else has happened)
  concurrent,              \* whether flows and operations may interleave
  nSteps                   \* operations begun so far

vars == << providers, initialized_providers, settings, initialization_complete,
           transcription_cache, calls, served, init_history, kept, reply,
           concurrent, nSteps >>

Empty == [x \in {} |-> NoResult]

\* d[k] = v on a Python dict
DictSet(d, k, v) == (k :> v) @@ d

NoFile == [name |-> Null, readable |-> FALSE, content |-> <<>>]

\* History of a call: what has happened to the candidate it tried last.
Attempt(name, inst, init) ==
  [ name |-> name, inst |-> inst, init |-> init,
    failed_before |-> (name \in DOMAIN init_history
                       /\ init_history[name] = "failed"),
    called |-> FALSE,
    engine |-> FALSE, hit |-> FALSE, prev |-> NoResult, prev_name |-> Null,
    res |-> NoResult ]

NoAttempt ==
  [ name |-> Null, inst |-> Null, init |-> "none", failed_before |-> FALSE,
    called |-> FALSE, engine |-> FALSE, hit |-> FALSE, prev |-> NoResult,
    prev_name |-> Null, res |-> NoResult ]

IdleCall ==
  [ pc |-> "idle", chain |-> <<>>, idx |-> 0,
    file |-> NoFile, language |-> Null, thr0 |-> 0, provider |-> Null,
    file_hash |-> NoNumber, result |-> NoResult, last |-> NoAttempt,
    bypassed |-> FALSE, invoked |-> 0 ]

\* A flow that holds the event loop (it is between two suspending awaits).
Busy == \E c \in CallIds : calls[c].pc \in {"loop", "transcribe"}

\* When a new call or a manager/configuration operation can begin: when no
\* flow holds the event loop and, unless calls and operations interleave,
\* every earlier call has ended and its outcome has been picked up.
CanBegin ==
  /\ ~Busy
  /\ concurrent \/ \A c \in CallIds : calls[c].pc = "idle"

\* How many operations a behaviour may begin.
StepLimit == IF concurrent THEN MaxConcSteps ELSE MaxSteps

\* What a call counts for in that number: with interleaving the calls are
\* bounded by the flows, one call each.
CallCost == IF concurrent THEN 0 ELSE 1

FreeSlot(c) ==
  /\ calls[c].pc = "idle"
  /\ \A d \in CallIds : d < c => calls[d].pc # "idle"

\* Python's None as the return value of a manager operation.
None == [is_none |-> TRUE]

\* No manager operation has just completed.
NoReply == [op |-> Null, arg |-> Null, before |-> None, value |-> None]

\* AppConfig's class attributes (core/config.py 26-29)
DefaultSettings ==
  [ PRIMARY_PROVIDER |-> "distil-whisper-pt",
    FALLBACK_PROVIDERS |-> <<"faster-whisper", "gemini-hybrid">>,
    CONFIDENCE_THRESHOLD |-> 600 ]

\* TranscriptionManager.__init__, each provider's __init__, AppConfig()
InitState ==
  /\ providers = Empty
  /\ initialized_providers = [x \in {} |-> FALSE]
  /\ settings = DefaultSettings
  /\ initialization_complete = [i \in Instances |-> FALSE]
  /\ transcription_cache = [i \in Instances |-> Empty]
  /\ calls = [c \in CallIds |-> IdleCall]
  /\ served = [i \in Instances |-> Empty]
  /\ init_history = [x \in {} |-> "none"]
  /\ kept = {}
  /\ reply = NoReply
  /\ nSteps = 0

Init == InitState /\ concurrent = FALSE

\* ------------------------------------------------------------ the manager

\* Variant: the manager returns any Result without an error, whatever its
\* confidence.
AcceptsAnySuccess(r) == ~Truthy(r.error_message)

\* Variant: a confidence equal to the threshold is rejected too.
AcceptsStrictlyAbove(r) ==
  /\ ~Truthy(r.error_message)
  /\ ~(r.confidence <= settings.CONFIDENCE_THRESHOLD)

\* TranscriptionManager.transcribe_audio, lines 76-88: whether the manager
\* returns the Result a provider gave it.
Accepts(r) ==
  /\ ~Truthy(r.error_message)
  /\ ~(r.confidence < settings.CONFIDENCE_THRESHOLD)

\* The criterion of the fallback algorithm: no error, and a confidence of at
\* least the threshold.
Acceptable(r, threshold) == r.error_message = Null /\ r.confidence >= threshold

\* Variant: a rejected candidate is tried again.
ReturnedRetries(call, r) ==
  LET seen == [call EXCEPT !.last.res = r, !.provider = Null,
                           !.file_hash = NoNumber]
  IN  IF Accepts(r)
      THEN [seen EXCEPT !.pc = "done", !.result = r]
      ELSE [seen EXCEPT !.pc = "loop",
                        !.bypassed = @ \/ Acceptable(r, call.thr0)]

\* provider.transcribe returns Result r to transcribe_audio, which returns it
\* or goes on to the next candidate (lines 74-88).  `bypassed` records, for
\* the history, that a Result meeting the criterion under the threshold of the
\* call's start was passed over; `invoked` counts, for the history, the
\* provider.transcribe invocations of the call.
Returned(call, r) ==
  LET seen == [call EXCEPT !.last.res = r, !.provider = Null,
                           !.file_hash = NoNumber]
  IN  IF Accepts(r)
      THEN [seen EXCEPT !.pc = "done", !.result = r]
      ELSE [seen EXCEPT !.pc = "loop", !.idx = @ + 1,
                        !.bypassed = @ \/ Acceptable(r, call.thr0)]

\* Variant: a skipped candidate is tried again.
SkippedStays(call, name, inst, why) ==
  [call EXCEPT !.pc = "loop", !.provider = Null,
               !.last = Attempt(name, inst, why)]

\* Variant: a skipped candidate ends the chain.
SkippedEndsChain(call, name, inst, why) ==
  [call EXCEPT !.pc = "loop", !.idx = Len(call.chain) + 1, !.provider = Null,
               !.last = Attempt(name, inst, why)]

\* The candidate is skipped before its transcribe is called (lines 65-71).
Skipped(call, name, inst, why) ==
  [call EXCEPT !.pc = "loop", !.idx = @ + 1, !.provider = Null,
               !.last = Attempt(name, inst, why)]

Candidate(c) == calls[c].chain[calls[c].idx]

AtCandidate(c) ==
  /\ calls[c].pc = "loop"
  /\ calls[c].idx <= Len(calls[c].chain)

\* dict.get(name, False) on _initialized_providers
IsMarked(name) ==
  name \in DOMAIN initialized_providers /\ initialized_providers[name]

\* Variant: the manager never remembers that initialize returned True.
MarkNever(name, success) == initialized_providers

\* Variant: the name is marked whatever initialize returned.
MarkWhateverReturned(name, success) ==
  DictSet(initialized_providers, name, TRUE)

\* Variant: registering under a name already in use keeps the name's mark.
KeepMark(name) ==
  IF name \in DOMAIN initialized_providers THEN initialized_providers
  ELSE DictSet(initialized_providers, name, FALSE)

\* _ensure_provider_initialized, lines 47-53: the name is marked only when
\* initialize returned True; a failure leaves the mark as it was.
MarkAfterInitialize(name, success) ==
  IF success THEN DictSet(initialized_providers, name, TRUE)
  ELSE initialized_providers

\* Variant: registering gives a flag only to a name that already has one.
ResetMarkIfPresent(name) ==
  IF name \in DOMAIN initialized_providers
  THEN DictSet(initialized_providers, name, FALSE)
  ELSE initialized_providers

\* register_provider, line 36: the name's mark is reset.
ResetMark(name) == DictSet(initialized_providers, name, FALSE)

\* History: the manager's initialize call for the name ended this way.
Initialized(name, how) == DictSet(init_history, name, how)

\* Variant: the chain is the one configured when the manager was built.
provider_chain_at_construction ==
  <<DefaultSettings.PRIMARY_PROVIDER>> \o DefaultSettings.FALLBACK_PROVIDERS

\* transcribe_audio, line 61: the chain, from the settings as they are now.
provider_chain ==
  <<settings.PRIMARY_PROVIDER>> \o settings.FALLBACK_PROVIDERS

\* transcribe_audio is called (line 61: the chain is built from settings).
transcribe_audio(c, f, language) ==
  /\ <<f.name, language>> \in Requests
  /\ CanBegin
  /\ FreeSlot(c)
  /\ nSteps + CallCost <= StepLimit
  /\ nSteps' = nSteps + CallCost
  /\ calls' = [calls EXCEPT ![c] =
       [IdleCall EXCEPT
          !.pc = "loop",
          !.chain = provider_chain,
          !.idx = 1, !.file = f, !.language = language,
          !.thr0 = settings.CONFIDENCE_THRESHOLD]]
  /\ reply' = NoReply
  /\ UNCHANGED << providers, initialized_providers, settings,
                  initialization_complete, transcription_cache,
                  served, concurrent,
                  init_history, kept >>

\* Lines 90-96: every candidate was skipped.
ChainExhausted(c) ==
  /\ calls[c].pc = "loop"
  /\ calls[c].idx > Len(calls[c].chain)
  /\ calls' = [calls EXCEPT ![c].pc = "done",
                            ![c].result = ExhaustedResult(calls[c].language)]
  /\ reply' = NoReply
  /\ UNCHANGED << providers, initialized_providers, settings,
                  initialization_complete, transcription_cache,
                  served, concurrent, nSteps,
                  init_history, kept >>

\* Lines 64-67: the name is not registered.
SkipUnregistered(c) ==
  /\ AtCandidate(c)
  /\ Candidate(c) \notin DOMAIN providers
  /\ calls' = [calls EXCEPT ![c] =
                 Skipped(calls[c], Candidate(c), Null, "unregistered")]
  /\ reply' = NoReply
  /\ UNCHANGED << providers, initialized_providers, settings,
                  initialization_complete, transcription_cache,
                  served, concurrent, nSteps,
                  init_history, kept >>

\* _ensure_provider_initialized, line 54: already marked, no initialize call.
EnsureMarked(c) ==
  /\ AtCandidate(c)
  /\ Candidate(c) \in DOMAIN providers
  /\ IsMarked(Candidate(c))
  /\ calls' = [calls EXCEPT
       ![c].pc = "transcribe",
       ![c].provider = providers[Candidate(c)],
       ![c].last = Attempt(Candidate(c), providers[Candidate(c)],
                                    "marked")]
  /\ reply' = NoReply
  /\ UNCHANGED << providers, initialized_providers, settings,
                  initialization_complete, transcription_cache,
                  served, concurrent, nSteps,
                  init_history, kept >>

NeedsInitialize(c) ==
  /\ AtCandidate(c)
  /\ Candidate(c) \in DOMAIN providers
  /\ ~IsMarked(Candidate(c))

\* Lines 45-50 when provider.initialize returns True at once: the instance
\* already has initialization_complete set (initialize's first two lines).
EnsureAlreadyLoaded(c) ==
  LET name == Candidate(c)
      i == providers[name]
  IN
  /\ NeedsInitialize(c)
  /\ initialization_complete[i]
  /\ initialized_providers' = MarkAfterInitialize(name, TRUE)
  /\ init_history' = Initialized(name, "ok")
  /\ calls' = [calls EXCEPT
       ![c].pc = "transcribe", ![c].provider = i,
       ![c].last = Attempt(name, i, "ok")]
  /\ reply' = NoReply
  /\ UNCHANGED << providers, settings, initialization_complete,
                  transcription_cache, served, concurrent, nSteps, kept >>

\* Lines 45-53 with GeminiProvider.initialize, which has no suspending await:
\* False without an API key or when genai raises, otherwise True.
EnsureGemini(c, ok) ==
  LET name == Candidate(c)
      i == providers[name]
  IN
  /\ NeedsInitialize(c)
  /\ KindOf(i) = "gemini"
  /\ ~initialization_complete[i]
  /\ initialization_complete' = [initialization_complete EXCEPT ![i] = ok]
  /\ initialized_providers' = MarkAfterInitialize(name, ok)
  /\ init_history' = Initialized(name, IF ok THEN "ok" ELSE "failed")
  /\ calls' = [calls EXCEPT ![c] =
       IF ok
       THEN [calls[c] EXCEPT
               !.pc = "transcribe", !.provider = i,
               !.last = Attempt(name, i, "ok")]
       ELSE Skipped(calls[c], name, i, "failed")]
  /\ reply' = NoReply
  /\ UNCHANGED << providers, settings, transcription_cache, served,
                  concurrent, nSteps, kept >>

\* Lines 45-47 with a Whisper provider whose cache_dir.mkdir raises
\* (initialize line 48 of faster, 38 of distil, outside the try).
EnsureMkdirRaises(c) ==
  LET name == Candidate(c)
      i == providers[name]
  IN
  /\ NeedsInitialize(c)
  /\ KindOf(i) # "gemini"
  /\ ~initialization_complete[i]
  /\ calls' = [calls EXCEPT
       ![c].pc = "raised", ![c].provider = Null,
       ![c].last = Attempt(name, i, "raised")]
  /\ init_history' = Initialized(name, "raised")
  /\ reply' = NoReply
  /\ UNCHANGED << providers, initialized_providers, settings,
                  initialization_complete, transcription_cache,
                  served, concurrent, nSteps, kept >>

\* Lines 45-47 with a Whisper provider: initialize suspends in
\* run_in_executor while the model loads.
EnsureSuspends(c) ==
  LET name == Candidate(c)
      i == providers[name]
  IN
  /\ NeedsInitialize(c)
  /\ KindOf(i) # "gemini"
  /\ ~initialization_complete[i]
  /\ calls' = [calls EXCEPT
       ![c].pc = "init", ![c].provider = i,
       ![c].last = Attempt(name, i, "pending")]
  /\ init_history' = Initialized(name, "pending")
  /\ reply' = NoReply
  /\ UNCHANGED << providers, initialized_providers, settings,
                  initialization_complete, transcription_cache,
                  served, concurrent, nSteps, kept >>

\* The awaited initialize of lines 47-53 resumes: the load succeeded (True,
\* the name is marked) or raised inside the try (False, the name stays
\* unmarked and the candidate is skipped).
InitializeReturns(c, ok) ==
  LET name == Candidate(c)
      i == calls[c].provider
  IN
  /\ calls[c].pc = "init"
  /\ ~Busy
  /\ initialization_complete' = [initialization_complete EXCEPT ![i] = ok]
  /\ initialized_providers' = MarkAfterInitialize(name, ok)
  /\ init_history' = Initialized(name, IF ok THEN "ok" ELSE "failed")
  /\ calls' = [calls EXCEPT ![c] =
       IF ok
       THEN [calls[c] EXCEPT !.pc = "transcribe",
                             !.last.init = "ok"]
       ELSE [calls[c] EXCEPT !.pc = "loop", !.idx = @ + 1, !.provider = Null,
                             !.last.init = "failed"]]
  /\ reply' = NoReply
  /\ UNCHANGED << providers, settings, transcription_cache, served,
                  concurrent, nSteps, kept >>

\* --------------------------------------------------------------- providers

\* History: instance i returned Result r for file f.
Serve(i, f, r) ==
  [served EXCEPT ![i] = DictSet(@, f.content, [res |-> r, name |-> f.name])]

\* What the history holds for the file of call c on instance i.
PrevServed(i, f) ==
  IF f.content \in DOMAIN served[i] THEN served[i][f.content]
  ELSE [res |-> NoResult, name |-> Null]

\* The call's history entry when provider.transcribe is entered.
Entered(call, i) ==
  [call EXCEPT !.invoked = @ + 1,
               !.last.called = TRUE,
               !.last.prev = PrevServed(i, call.file).res,
               !.last.prev_name = PrevServed(i, call.file).name]

\* provider.transcribe with the model loaded: it suspends in get_file_hash
\* (faster 79-89, distil 106-116, gemini 53-64).
TranscribeLoaded(c) ==
  LET i == calls[c].provider IN
  /\ calls[c].pc = "transcribe"
  /\ initialization_complete[i]
  /\ calls' = [calls EXCEPT ![c] = [Entered(calls[c], i) EXCEPT !.pc = "hash"]]
  /\ reply' = NoReply
  /\ UNCHANGED << providers, initialized_providers, settings,
                  initialization_complete, transcription_cache,
                  served, concurrent, nSteps,
                  init_history, kept >>

\* GeminiProvider.transcribe 53-61 with the model not set up: initialize runs
\* without suspending; on failure the not-initialized Result is returned.
TranscribeGeminiInit(c, ok) ==
  LET i == calls[c].provider
      r == NotInitializedResult(i, calls[c].language)
  IN
  /\ calls[c].pc = "transcribe"
  /\ ~initialization_complete[i]
  /\ KindOf(i) = "gemini"
  /\ initialization_complete' = [initialization_complete EXCEPT ![i] = ok]
  /\ calls' = [calls EXCEPT ![c] =
       IF ok THEN [Entered(calls[c], i) EXCEPT !.pc = "hash"]
       ELSE Returned(Entered(calls[c], i), r)]
  /\ served' = IF ok THEN served ELSE Serve(i, calls[c].file, r)
  /\ reply' = NoReply
  /\ UNCHANGED << providers, initialized_providers, settings,
                  transcription_cache, concurrent, nSteps, init_history, kept >>

\* A Whisper provider's transcribe with the model not loaded (faster 79-80,
\* distil 106-107): initialize's mkdir raises, and so does transcribe.
TranscribeMkdirRaises(c) ==
  LET i == calls[c].provider IN
  /\ calls[c].pc = "transcribe"
  /\ ~initialization_complete[i]
  /\ KindOf(i) # "gemini"
  /\ calls' = [calls EXCEPT ![c] =
       [Entered(calls[c], i) EXCEPT !.pc = "raised", !.provider = Null]]
  /\ reply' = NoReply
  /\ UNCHANGED << providers, initialized_providers, settings,
                  initialization_complete, transcription_cache,
                  served, concurrent, nSteps,
                  init_history, kept >>

\* A Whisper provider's transcribe with the model not loaded: initialize
\* suspends while the model loads.
TranscribeInitSuspends(c) ==
  LET i == calls[c].provider IN
  /\ calls[c].pc = "transcribe"
  /\ ~initialization_complete[i]
  /\ KindOf(i) # "gemini"
  /\ calls' = [calls EXCEPT ![c] = [Entered(calls[c], i) EXCEPT !.pc = "tinit"]]
  /\ reply' = NoReply
  /\ UNCHANGED << providers, initialized_providers, settings,
                  initialization_complete, transcription_cache,
                  served, concurrent, nSteps,
                  init_history, kept >>

\* The initialize awaited inside transcribe resumes (faster 80-89, distil
\* 107-116): loaded, transcribe goes on to get_file_hash; failed, it returns
\* the not-initialized Result.
TranscribeInitReturns(c, ok) ==
  LET i == calls[c].provider
      r == NotInitializedResult(i, calls[c].language)
  IN
  /\ calls[c].pc = "tinit"
  /\ ~Busy
  /\ initialization_complete' = [initialization_complete EXCEPT ![i] = ok]
  /\ calls' = [calls EXCEPT ![c] =
       IF ok THEN [calls[c] EXCEPT !.pc = "hash"]
       ELSE Returned(calls[c], r)]
  /\ served' = IF ok THEN served ELSE Serve(i, calls[c].file, r)
  /\ reply' = NoReply
  /\ UNCHANGED << providers, initialized_providers, settings,
                  transcription_cache, concurrent, nSteps, init_history, kept >>

\* get_file_hash raises (the file cannot be opened); the call is outside
\* every try block (faster 89, distil 116, gemini 64), so transcribe raises and
\* transcribe_audio with it.
HashRaises(c) ==
  /\ calls[c].pc = "hash"
  /\ ~Busy
  /\ ~calls[c].file.readable
  /\ calls' = [calls EXCEPT ![c].pc = "raised", ![c].provider = Null]
  /\ reply' = NoReply
  /\ UNCHANGED << providers, initialized_providers, settings,
                  initialization_complete, transcription_cache,
                  served, concurrent, nSteps,
                  init_history, kept >>

\* Variant: the cache is keyed by the path.
CacheKeyOfPath(f) == f.name

\* The key transcribe looks up and stores under.
CacheKey(f) == get_file_hash(f)

\* get_file_hash returns a key that is in the cache: the cached Result is
\* returned (faster 90-93, distil 117-120, gemini 65-68).
\* Variant: the cached Result is returned under the language of the call.
cached_result_relabelled(i, h, language) ==
  [transcription_cache[i][h] EXCEPT !.language = language]

\* cached_result = self.transcription_cache[file_hash] in
\* transcribe(audio_path, language) (faster 91, distil 118, gemini 66): the
\* entry is looked up by the hash alone and returned as it is.
cached_result(i, h, language) == transcription_cache[i][h]

CacheHit(c) ==
  LET i == calls[c].provider
      h == CacheKey(calls[c].file)
      r == cached_result(i, h, calls[c].language)
  IN
  /\ calls[c].pc = "hash"
  /\ ~Busy
  /\ calls[c].file.readable
  /\ h \in DOMAIN transcription_cache[i]
  /\ calls' = [calls EXCEPT ![c] =
       Returned([calls[c] EXCEPT !.last.hit = TRUE], r)]
  /\ served' = Serve(i, calls[c].file, r)
  /\ reply' = NoReply
  /\ UNCHANGED << providers, initialized_providers, settings,
                  initialization_complete, transcription_cache,
                  concurrent, nSteps,
                  init_history, kept >>

CacheMiss(c) ==
  /\ calls[c].pc = "hash"
  /\ ~Busy
  /\ calls[c].file.readable
  /\ CacheKey(calls[c].file) \notin DOMAIN transcription_cache[calls[c].provider]

\* Whether the provider has an engine call to make for the file
\* (GeminiProvider.transcribe 71-76: only for an audio or video MIME type).
Dispatches(i, f) == KindOf(i) # "gemini" \/ guess_type(f.name) # Null

\* Whether the provider uploads the file before it asks for the text
\* (GeminiProvider._transcribe_video_with_gemini 152-154).
Uploads(i, f) == KindOf(i) = "gemini" /\ guess_type(f.name) = "video"

\* The state genai.upload_file / genai.get_file reports for the uploaded
\* video; "exc" stands for the call raising.
FileStates == {"PROCESSING", "ACTIVE", "FAILED", "exc"}

\* A cache miss: the engine call is started and the flow suspends on it
\* (faster 95-111, distil 122-139, gemini 71-76 and 108-114 / 152-178).
EngineStarts(c) ==
  /\ CacheMiss(c)
  /\ Dispatches(calls[c].provider, calls[c].file)
  /\ calls' = [calls EXCEPT
       ![c].pc = IF Uploads(calls[c].provider, calls[c].file)
                 THEN "upload" ELSE "engine",
       ![c].file_hash = CacheKey(calls[c].file),
       ![c].last.engine = TRUE]
  /\ reply' = NoReply
  /\ UNCHANGED << providers, initialized_providers, settings,
                  initialization_complete, transcription_cache,
                  served, concurrent, nSteps,
                  init_history, kept >>

\* GeminiProvider.transcribe 77-90: neither audio nor video.
GeminiUnsupported(c) ==
  LET i == calls[c].provider
      r == UnsupportedResult(i, calls[c].language)
  IN
  /\ CacheMiss(c)
  /\ ~Dispatches(i, calls[c].file)
  /\ calls' = [calls EXCEPT ![c] = Returned(calls[c], r)]
  /\ served' = Serve(i, calls[c].file, r)
  /\ reply' = NoReply
  /\ UNCHANGED << providers, initialized_providers, settings,
                  initialization_complete, transcription_cache,
                  concurrent, nSteps,
                  init_history, kept >>

\* GeminiProvider._upload_video_to_gemini: upload_file or get_file, run in the
\* executor, answers with the state of the file.  While the state is
\* PROCESSING the provider sleeps and asks again (271-277, no bound on the
\* number of rounds and no wait_for around them); FAILED or an exception
\* makes the upload return None (279-285), which the caller turns into an
\* error Result (153-155, 203-207); any other state starts generate_content
\* under wait_for (172-178).
UploadAnswers(c, state) ==
  LET i == calls[c].provider IN
  /\ calls[c].pc = "upload"
  /\ ~Busy
  /\ state \in FileStates
  /\ IF state \in {"FAILED", "exc"}
     THEN \E out \in GeminiOutputs :
            /\ ~out.upload_ok
            /\ LET r == GeminiResult(i, calls[c].language, "video", out) IN
               /\ calls' = [calls EXCEPT ![c] = Returned(calls[c], r)]
               /\ served' = Serve(i, calls[c].file, r)
     ELSE /\ calls' = [calls EXCEPT ![c].pc =
                         IF state = "PROCESSING" THEN "sleep" ELSE "engine"]
          /\ served' = served
  /\ reply' = NoReply
  /\ UNCHANGED << providers, initialized_providers, settings,
                  initialization_complete, transcription_cache,
                  concurrent, nSteps, init_history, kept >>

\* asyncio.sleep(2) of the polling loop ends and get_file is asked (273-277).
PollSleepEnds(c) ==
  /\ calls[c].pc = "sleep"
  /\ ~Busy
  /\ calls' = [calls EXCEPT ![c].pc = "upload"]
  /\ reply' = NoReply
  /\ UNCHANGED << providers, initialized_providers, settings,
                  initialization_complete, transcription_cache,
                  served, concurrent, nSteps, init_history, kept >>

\* Variant: the cache keeps the newest entry only.
StoredAlone(cache, h, r) == h :> r

\* Variant: an entry already in the cache is kept (dict.setdefault).
StoredIfAbsent(cache, h, r) ==
  IF h \in DOMAIN cache THEN cache ELSE DictSet(cache, h, r)

\* self.transcription_cache[file_hash] = result (faster 141, distil 162,
\* gemini 88): a dict without a size or an age limit.
Stored(cache, h, r) == DictSet(cache, h, r)

\* Variant: the provider stores only what the manager will accept.
StoresIfAccepted(r) == Accepts(r)

\* Variant: the providers share one cache.
SharedCacheAfter(i, h, r) ==
  [j \in Instances |-> Stored(transcription_cache[j], h, r)]

\* The caches after instance i has stored r under h: each provider has a
\* transcription_cache dict of its own (faster 27, distil 30, gemini 26).
CacheAfter(i, h, r) ==
  [transcription_cache EXCEPT ![i] = Stored(@, h, r)]

\* Variant: whatever transcribe returns is stored.
StoresEverything(r) == TRUE

\* Variant: nothing is ever stored.
StoresNothing(r) == FALSE

\* Whether transcribe stores the Result it is about to return
\* (faster 141, distil 162: on the success path; gemini 87-88).
Stores(r) == ~Truthy(r.error_message)

\* The engine call resumes: the provider builds the Result, stores it in its
\* cache when it is a success, and returns it.
EngineReturns(c, out) ==
  LET i == calls[c].provider
      r == EngineResult(i, calls[c].language, calls[c].file, out)
  IN
  /\ calls[c].pc = "engine"
  /\ ~Busy
  /\ out \in EngineOutputs(KindOf(i))
  /\ Uploads(i, calls[c].file) => out.upload_ok
  /\ transcription_cache' =
       IF Stores(r)
       THEN CacheAfter(i, calls[c].file_hash, r)
       ELSE transcription_cache
  /\ calls' = [calls EXCEPT ![c] = Returned(calls[c], r)]
  /\ served' = Serve(i, calls[c].file, r)
  /\ reply' = NoReply
  /\ UNCHANGED << providers, initialized_providers, settings,
                  initialization_complete, concurrent, nSteps,
                  init_history, kept >>

\* The caller picks up the outcome of a finished call.
Collect(c) ==
  /\ calls[c].pc \in {"done", "raised"}
  /\ calls' = [calls EXCEPT ![c] = IdleCall]
  /\ reply' = NoReply
  /\ UNCHANGED << providers, initialized_providers, settings,
                  initialization_complete, transcription_cache,
                  served, concurrent, nSteps,
                  init_history, kept >>

\* --------------------------------------------- registry and configuration

\* TranscriptionManager.register_provider with a provider instance.
register_provider(name, i) ==
  /\ <<name, i>> \in Registrations
  /\ CanBegin
  /\ nSteps < StepLimit
  /\ nSteps' = nSteps + 1
  /\ providers' = DictSet(providers, name, i)
  /\ initialized_providers' = ResetMark(name)
  /\ init_history' = Initialized(name, "none")
  /\ kept' = kept \ {name}
  /\ reply' = NoReply
  /\ UNCHANGED << settings, initialization_complete, transcription_cache,
                  calls, served, concurrent >>

\* Objects that are not instances of ITranscriptionProvider.
NonProviders == {"o1"}

\* isinstance(provider_instance, ITranscriptionProvider), line 29.
is_provider(x) == x \in Instances

\* The exception register_provider raises, as the outcome of the operation.
TypeError == [raises |-> "TypeError"]

\* Variant: the object is checked after the assignments, so the flag of the
\* name has been reset when the exception is raised.
FlagsResetBeforeRaise(name, x) ==
  DictSet(initialized_providers, name, FALSE)

\* The flags when register_provider raises at lines 29-30: the check comes
\* before the assignments of lines 35-36.
FlagsWhenRejected(name, x) == initialized_providers

\* register_provider, lines 29-30: the object does not implement the
\* provider interface, TypeError is raised and nothing is assigned.
register_provider_raises(name, x) ==
  /\ ~is_provider(x)
  /\ CanBegin
  /\ nSteps < StepLimit
  /\ nSteps' = nSteps + 1
  /\ initialized_providers' = FlagsWhenRejected(name, x)
  /\ reply' = [op |-> "register_provider", arg |-> <<name, x>>,
               before |-> None, value |-> TypeError]
  /\ UNCHANGED << providers, settings, initialization_complete,
                  transcription_cache, calls, served, concurrent,
                  init_history, kept >>

\* provider.get_status(): the two entries every provider's map has in common
\* (faster 168-176, distil 189-197, gemini 212-220).
get_status(i) ==
  [ initialized |-> initialization_complete[i],
    cache_size |-> Cardinality(DOMAIN transcription_cache[i]) ]

\* History: the registry, the marks and the cache sizes an operation found.
Snapshot ==
  [ providers |-> providers, initialized_providers |-> initialized_providers,
    initialized |-> initialization_complete,
    cache_size |-> [i \in Instances |-> get_status(i).cache_size] ]

\* Variant: only the providers the manager has marked initialized are
\* cleared.
ClearedIfMarked ==
  { providers[n] : n \in { x \in DOMAIN providers : IsMarked(x) } }

\* clear_all_caches, lines 115-116: the instances whose clear_cache is called.
Cleared == { providers[n] : n \in DOMAIN providers }

\* provider.clear_cache() on each of them.
CachesCleared ==
  [i \in Instances |-> IF i \in Cleared THEN Empty ELSE transcription_cache[i]]

\* TranscriptionManager.clear_all_caches, with each provider's clear_cache.
clear_all_caches ==
  /\ CanBegin
  /\ nSteps < StepLimit
  /\ nSteps' = nSteps + 1
  /\ transcription_cache' = CachesCleared
  /\ served' = [i \in Instances |-> IF i \in Cleared THEN Empty ELSE served[i]]
  /\ reply' = [op |-> "clear_all_caches", arg |-> Null, before |-> Snapshot,
               value |-> None]
  /\ UNCHANGED << providers, initialized_providers, settings,
                  initialization_complete, calls, concurrent,
                  init_history, kept >>

\* Variant: shutdown also forgets which providers are initialized.
MarksForgotten == [n \in DOMAIN initialized_providers |-> FALSE]

\* shutdown, lines 119-124: nothing but clear_all_caches is done, so the
\* marks stay.
MarksAfterShutdown == initialized_providers

\* TranscriptionManager.shutdown: a coroutine without an await, so it runs
\* in one piece.
shutdown ==
  /\ CanBegin
  /\ nSteps < StepLimit
  /\ nSteps' = nSteps + 1
  /\ transcription_cache' = CachesCleared
  /\ served' = [i \in Instances |-> IF i \in Cleared THEN Empty ELSE served[i]]
  /\ initialized_providers' = MarksAfterShutdown
  /\ kept' = { n \in DOMAIN providers : IsMarked(n) }
  /\ reply' = [op |-> "shutdown", arg |-> Null, before |-> Snapshot,
               value |-> None]
  /\ UNCHANGED << providers, settings, initialization_complete, calls,
                  concurrent, init_history >>

\* Variant: an unregistered name gets an empty status map.
StatusOrEmpty(name) ==
  IF name \in DOMAIN providers THEN get_status(providers[name])
  ELSE [initialized |-> FALSE, cache_size |-> 0]

\* get_provider_status, lines 100-104: the provider's map, or None.
StatusOrNone(name) ==
  IF name \in DOMAIN providers THEN get_status(providers[name]) ELSE None

\* TranscriptionManager.get_provider_status
get_provider_status(name) ==
  /\ CanBegin
  /\ nSteps < StepLimit
  /\ nSteps' = nSteps + 1
  /\ reply' = [op |-> "get_provider_status", arg |-> name, before |-> Snapshot,
               value |-> StatusOrNone(name)]
  /\ UNCHANGED << providers, initialized_providers, settings,
                  initialization_complete, transcription_cache, calls, served,
                  init_history, kept, concurrent >>

\* TranscriptionManager.get_all_providers_status
get_all_providers_status ==
  /\ CanBegin
  /\ nSteps < StepLimit
  /\ nSteps' = nSteps + 1
  /\ reply' = [op |-> "get_all_providers_status", arg |-> Null,
               before |-> Snapshot,
               value |-> [n \in DOMAIN providers |-> get_status(providers[n])]]
  /\ UNCHANGED << providers, initialized_providers, settings,
                  initialization_complete, transcription_cache, calls, served,
                  init_history, kept, concurrent >>

\* An operator edits the configuration object between calls
\* (tests/test_integration.py 48-53).
set_primary(name) ==
  /\ CanBegin
  /\ nSteps < StepLimit
  /\ nSteps' = nSteps + 1
  /\ name # settings.PRIMARY_PROVIDER
  /\ settings' = [settings EXCEPT !.PRIMARY_PROVIDER = name]
  /\ reply' = NoReply
  /\ UNCHANGED << providers, initialized_providers, initialization_complete,
                  transcription_cache, calls, served, concurrent,
                  init_history, kept >>

set_fallbacks(names) ==
  /\ CanBegin
  /\ nSteps < StepLimit
  /\ nSteps' = nSteps + 1
  /\ names # settings.FALLBACK_PROVIDERS
  /\ settings' = [settings EXCEPT !.FALLBACK_PROVIDERS = names]
  /\ reply' = NoReply
  /\ UNCHANGED << providers, initialized_providers, initialization_complete,
                  transcription_cache, calls, served, concurrent,
                  init_history, kept >>

set_threshold(t) ==
  /\ CanBegin
  /\ nSteps < StepLimit
  /\ nSteps' = nSteps + 1
  /\ t # settings.CONFIDENCE_THRESHOLD
  /\ settings' = [settings EXCEPT !.CONFIDENCE_THRESHOLD = t]
  /\ reply' = NoReply
  /\ UNCHANGED << providers, initialized_providers, initialization_complete,
                  transcription_cache, calls, served, concurrent,
                  init_history, kept >>

\* ----------------------------------------------------------- specification

\* With calls made one after another, the manager invokes transcribe only on
\* an instance whose model is loaded, so the branches of transcribe that
\* initialize the model themselves (TranscribeGeminiInit,
\* TranscribeMkdirRaises, TranscribeInitSuspends, TranscribeInitReturns) are
\* never taken and are not steps of Next.
TranscribeFindsModelLoaded ==
  \A c \in CallIds :
    calls[c].pc = "transcribe" => initialization_complete[calls[c].provider]

\* The steps of the calls.
FlowNext ==
  \/ \E c \in CallIds, f \in Files, l \in {"pt", "en"} :
       transcribe_audio(c, f, l)
  \/ \E c \in CallIds : ChainExhausted(c)
  \/ \E c \in CallIds : SkipUnregistered(c)
  \/ \E c \in CallIds : EnsureMarked(c)
  \/ \E c \in CallIds : EnsureAlreadyLoaded(c)
  \/ \E c \in CallIds, ok \in BOOLEAN : EnsureGemini(c, ok)
  \/ \E c \in CallIds : EnsureMkdirRaises(c)
  \/ \E c \in CallIds : EnsureSuspends(c)
  \/ \E c \in CallIds, ok \in BOOLEAN : InitializeReturns(c, ok)
  \/ \E c \in CallIds : TranscribeLoaded(c)
  \/ \E c \in CallIds : HashRaises(c)
  \/ \E c \in CallIds : CacheHit(c)
  \/ \E c \in CallIds : EngineStarts(c)
  \/ \E c \in CallIds : GeminiUnsupported(c)
  \/ \E c \in CallIds, st \in FileStates : UploadAnswers(c, st)
  \/ \E c \in CallIds : PollSleepEnds(c)
  \/ \E c \in CallIds, out \in AllOutputs : EngineReturns(c, out)
  \/ \E c \in CallIds : Collect(c)

\* The operations that change the registry, the caches or the configuration.
OpsNext ==
  \/ \E n \in Names, i \in Instances : register_provider(n, i)
  \/ \E n \in Names, x \in NonProviders : register_provider_raises(n, x)
  \/ clear_all_caches
  \/ shutdown
  \/ \E n \in Names : set_primary(n)
  \/ \E fb \in FallbackChoices : set_fallbacks(fb)
  \/ \E t \in Thresholds : set_threshold(t)

\* The status queries.
StatusNext ==
  \/ \E n \in Names : get_provider_status(n)
  \/ get_all_providers_status

Next == FlowNext \/ OpsNext \/ StatusNext

Spec == Init /\ [][Next]_vars

\* Calls and operations interleave: a call or an operation can begin
\* whenever no flow holds the event loop, so also while another call is
\* suspended on a provider operation.
\* The behaviours start once the two Whisper providers are registered under
\* their own names (tests/test_integration.py 16-34 without a Gemini key).
ConcInit ==
  /\ providers = ("distil-whisper-pt" :> "d1") @@ ("faster-whisper" :> "f1")
  /\ initialized_providers = [n \in DOMAIN providers |-> FALSE]
  /\ init_history = [n \in DOMAIN providers |-> "none"]
  /\ settings = DefaultSettings
  /\ initialization_complete = [i \in Instances |-> FALSE]
  /\ transcription_cache = [i \in Instances |-> Empty]
  /\ calls = [c \in CallIds |-> IdleCall]
  /\ served = [i \in Instances |-> Empty]
  /\ kept = {}
  /\ reply = NoReply
  /\ nSteps = 0
  /\ concurrent = TRUE

ConcFlowNext ==
  \/ \E c \in CallIds, r \in ConcRequests :
       transcribe_audio(c, FileNamed(r[1]), r[2])
  \/ \E c \in CallIds : ChainExhausted(c)
  \/ \E c \in CallIds : SkipUnregistered(c)
  \/ \E c \in CallIds : EnsureMarked(c)
  \/ \E c \in CallIds : EnsureAlreadyLoaded(c)
  \/ \E c \in CallIds, ok \in BOOLEAN : EnsureGemini(c, ok)
  \/ \E c \in CallIds : EnsureMkdirRaises(c)
  \/ \E c \in CallIds : EnsureSuspends(c)
  \/ \E c \in CallIds, ok \in BOOLEAN : InitializeReturns(c, ok)
  \/ \E c \in CallIds : TranscribeLoaded(c)
  \/ \E c \in CallIds, ok \in BOOLEAN : TranscribeGeminiInit(c, ok)
  \/ \E c \in CallIds : TranscribeMkdirRaises(c)
  \/ \E c \in CallIds : TranscribeInitSuspends(c)
  \/ \E c \in CallIds, ok \in BOOLEAN : TranscribeInitReturns(c, ok)
  \/ \E c \in CallIds : HashRaises(c)
  \/ \E c \in CallIds : CacheHit(c)
  \/ \E c \in CallIds : EngineStarts(c)
  \/ \E c \in CallIds : GeminiUnsupported(c)
  \/ \E c \in CallIds, out \in ConcOutputs : EngineReturns(c, out)

ConcOpsNext ==
  \/ \E r \in ConcRegistrations : register_provider(r[1], r[2])
  \/ clear_all_caches
  \/ \E n \in Names : set_primary(n)
  \/ \E fb \in FallbackChoices : set_fallbacks(fb)
  \/ \E t \in Thresholds : set_threshold(t)

ConcNext == ConcFlowNext \/ ConcOpsNext

SpecConc == ConcInit /\ [][ConcNext]_vars

\* Calls made one after another with the Gemini provider first in the chain
\* and Faster-Whisper behind it, on an audio and on a video file.
LiveRequests == { <<"a.wav", "pt">>, <<"v.mp4", "pt">> }

LiveInit ==
  /\ providers = ("gemini-hybrid" :> "g1") @@ ("faster-whisper" :> "f1")
  /\ initialized_providers = [n \in DOMAIN providers |-> FALSE]
  /\ init_history = [n \in DOMAIN providers |-> "none"]
  /\ settings = [DefaultSettings EXCEPT
                   !.PRIMARY_PROVIDER = "gemini-hybrid",
                   !.FALLBACK_PROVIDERS = <<"faster-whisper">>]
  /\ initialization_complete = [i \in Instances |-> FALSE]
  /\ transcription_cache = [i \in Instances |-> Empty]
  /\ calls = [c \in CallIds |-> IdleCall]
  /\ served = [i \in Instances |-> Empty]
  /\ kept = {}
  /\ reply = NoReply
  /\ nSteps = 0
  /\ concurrent = FALSE

\* The steps the manager and the providers take by themselves: a coroutine
\* that can run is run, the executor ends a local computation, a sleep ends.
ProgramStep(c) ==
  \/ ChainExhausted(c)
  \/ EnsureMarked(c)
  \/ \E ok \in BOOLEAN : EnsureGemini(c, ok)
  \/ EnsureMkdirRaises(c)
  \/ EnsureSuspends(c)
  \/ \E ok \in BOOLEAN : InitializeReturns(c, ok)
  \/ TranscribeLoaded(c)
  \/ CacheHit(c)
  \/ EngineStarts(c)
  \/ PollSleepEnds(c)

\* The executor call on the uploaded file returns, with whatever state the
\* service reports.
ServiceAnswers(c) == \E st \in FileStates : UploadAnswers(c, st)

\* The engine call ends: the engine returns or raises, or wait_for cuts a
\* generate_content that is still pending when the timeout expires.
EngineEnds(c) == \E out \in AllOutputs : EngineReturns(c, out)

LiveNext ==
  \/ \E c \in CallIds, r \in LiveRequests :
       transcribe_audio(c, FileNamed(r[1]), r[2])
  \/ \E c \in CallIds : ProgramStep(c)
  \/ \E c \in CallIds : ServiceAnswers(c)
  \/ \E c \in CallIds : EngineEnds(c)
  \/ \E c \in CallIds : Collect(c)

\* The event loop, the executor and the timers are fair; nothing is assumed
\* of what the Gemini service answers.
LiveFairness ==
  \A c \in CallIds :
    /\ WF_vars(ProgramStep(c))
    /\ WF_vars(ServiceAnswers(c))
    /\ WF_vars(EngineEnds(c))

SpecLive == LiveInit /\ [][LiveNext]_vars /\ LiveFairness

\* Every step a call in flight can take, the caller's two aside.
CallStep(c) ==
  \/ ChainExhausted(c)
  \/ SkipUnregistered(c)
  \/ EnsureMarked(c)
  \/ EnsureAlreadyLoaded(c)
  \/ \E ok \in BOOLEAN : EnsureGemini(c, ok)
  \/ EnsureMkdirRaises(c)
  \/ EnsureSuspends(c)
  \/ \E ok \in BOOLEAN : InitializeReturns(c, ok)
  \/ TranscribeLoaded(c)
  \/ \E ok \in BOOLEAN : TranscribeGeminiInit(c, ok)
  \/ TranscribeMkdirRaises(c)
  \/ TranscribeInitSuspends(c)
  \/ \E ok \in BOOLEAN : TranscribeInitReturns(c, ok)
  \/ HashRaises(c)
  \/ CacheHit(c)
  \/ EngineStarts(c)
  \/ GeminiUnsupported(c)
  \/ \E st \in FileStates : UploadAnswers(c, st)
  \/ PollSleepEnds(c)
  \/ \E out \in AllOutputs : EngineReturns(c, out)

\* ------------------------------------------------------------- properties

\* The Result the manager got from the candidate the call tried last.
LastResult(c) == calls[c].last.res

HasResult(c) == calls[c].last.called /\ LastResult(c) # NoResult

\* The call returned a Result to its caller.
Done(c) == calls[c].pc = "done"

\* The call returned the synthetic Result of an exhausted chain.
Exhausted(c) == Done(c) /\ calls[c].idx > Len(calls[c].chain)

\* C1: transcribe_audio tries the candidates of the chain in order and returns
\* the Result of the first one that is registered, initializes and gives a
\* Result with no error and a confidence of at least the threshold: no such
\* Result is ever passed over for a later candidate, a Result meeting the
\* criterion is returned as it is, and a Result returned from a candidate is
\* that candidate's own, meets the criterion, and comes from the instance
\* registered under the candidate's name after its initialization succeeded.
C1_FirstAcceptableWins ==
  \A c \in CallIds :
    LET call == calls[c] IN
    /\ ~call.bypassed
    /\ (HasResult(c) /\ Acceptable(LastResult(c), call.thr0))
         => Done(c) /\ call.result = LastResult(c)
    /\ (Done(c) /\ ~Exhausted(c))
         => /\ HasResult(c)
            /\ call.result = LastResult(c)
            /\ Acceptable(call.result, call.thr0)
            /\ call.last.name = call.chain[call.idx]
            /\ call.last.inst = providers[call.last.name]
            /\ call.last.init \in {"marked", "ok"}

\* A call returned the Result of its second candidate after its first
\* candidate, registered and initialized, had been tried.
C1_Witness ==
  \E c \in CallIds :
    /\ Done(c)
    /\ calls[c].idx = 2
    /\ Len(calls[c].chain) >= 2
    /\ calls[c].chain[1] # calls[c].chain[2]
    /\ IsMarked(calls[c].chain[1])
    /\ Acceptable(calls[c].result, calls[c].thr0)

C3_TranscribeNeverRaises ==
  \A c \in CallIds :
    calls[c].last.called => calls[c].pc # "raised"

\* C4: when the only registered provider of the chain returns an error Result,
\* transcribe_audio returns a Result whose model_used is that provider's name
\* (with the provider's error message, empty text and confidence 0).
C4_ErrorKeepsProviderName ==
  \A c \in CallIds :
    LET call == calls[c] IN
    ( /\ Done(c)
      /\ HasResult(c)
      /\ Truthy(LastResult(c).error_message)
      /\ \A k \in 1..Len(call.chain) :
           call.chain[k] \in DOMAIN providers => call.chain[k] = call.last.name )
      => /\ call.result.model_used = get_name(call.last.inst)
         /\ call.result.error_message = LastResult(c).error_message
         /\ call.result.text = <<>>
         /\ call.result.confidence = 0

\* C5: the comparison with the threshold is strict: an error-free Result whose
\* confidence equals the threshold is returned, and an error-free Result is
\* passed over only when its confidence is below the threshold.
C5_ThresholdIsInclusive ==
  \A c \in CallIds :
    (HasResult(c) /\ LastResult(c).error_message = Null)
      => /\ (LastResult(c).confidence = calls[c].thr0)
              => Done(c) /\ calls[c].result = LastResult(c)
         /\ ~(Done(c) /\ calls[c].result = LastResult(c))
              => LastResult(c).confidence < calls[c].thr0

\* A call returned an error-free Result whose confidence is the threshold.
C5_Witness ==
  \E c \in CallIds :
    /\ Done(c)
    /\ HasResult(c)
    /\ calls[c].result = LastResult(c)
    /\ calls[c].result.error_message = Null
    /\ calls[c].result.confidence = calls[c].thr0

\* The provider tried last had already returned a Result for the same content
\* (since its cache was last cleared), and has now returned another.
Repeated(c) == HasResult(c) /\ calls[c].last.prev # NoResult

\* C6 as stated: a provider called twice in sequence with the same content,
\* its cache not cleared in between, returns the same text the second time,
\* without invoking the engine.
C6_RepeatSameText ==
  \A c \in CallIds :
    Repeated(c)
      => /\ LastResult(c).text = calls[c].last.prev.text
         /\ ~calls[c].last.engine

\* C6, amended: when the first of the two calls returned a Result without an
\* error, the second returns the same text and does not invoke the engine.
C6_RepeatAfterSuccess ==
  \A c \in CallIds :
    (Repeated(c) /\ calls[c].last.prev.error_message = Null)
      => /\ LastResult(c).text = calls[c].last.prev.text
         /\ ~calls[c].last.engine

\* Through the manager, a provider that had returned an error-free Result for
\* a content returned a Result for the same content again.
C6_Witness ==
  \E c \in CallIds :
    /\ Repeated(c)
    /\ calls[c].last.prev.error_message = Null
    /\ calls[c].last.prev.text # <<>>
    /\ Done(c)
    /\ calls[c].result.text = calls[c].last.prev.text

\* C7: when a second transcribe_audio call on the same file is served from
\* the cache of a Whisper provider, the processing_time of its Result is
\* strictly below that of the Result of the first call.
C7_CachedCallIsFaster ==
  \A c \in CallIds :
    ( /\ Done(c)
      /\ calls[c].idx = 1
      /\ Repeated(c)
      /\ calls[c].last.hit
      /\ calls[c].result = LastResult(c)
      /\ KindOf(calls[c].last.inst) \in {"distil", "faster"} )
      => calls[c].result.processing_time
           < calls[c].last.prev.processing_time

\* C8: the cache is keyed by the content, not by the path: a provider that
\* returned an error-free Result for a file answers from its cache, with that
\* same Result, when given another path holding the same bytes.
C8_KeyedByContent ==
  \A c \in CallIds :
    ( /\ Repeated(c)
      /\ calls[c].last.prev.error_message = Null
      /\ calls[c].last.prev_name # calls[c].file.name )
      => /\ calls[c].last.hit
         /\ ~calls[c].last.engine
         /\ LastResult(c) = calls[c].last.prev

\* A provider answered from its cache for a path other than the one whose
\* transcription filled it.
C8_Witness ==
  \E c \in CallIds :
    /\ Repeated(c)
    /\ calls[c].last.hit
    /\ calls[c].last.prev_name # Null
    /\ calls[c].last.prev_name # calls[c].file.name
    /\ get_file_hash(calls[c].file) \in
         DOMAIN transcription_cache[calls[c].last.inst]

\* C9: registering under a name replaces the instance and resets the name's
\* mark, so a call reaching the name afterwards calls initialize on the
\* instance now registered before it transcribes with it: whenever the manager
\* invokes transcribe for a name, the instance is the one registered under
\* the name, and initialize has been called on it, and has succeeded, since
\* that registration.
C9_ReRegistrationResets ==
  \A c \in CallIds :
    LET a == calls[c].last IN
    /\ (a.inst # Null) => a.inst = providers[a.name]
    /\ a.called
         => /\ init_history[a.name] = "ok"
            /\ IsMarked(a.name)
            /\ a.init \in {"marked", "ok"}
    /\ \A n \in DOMAIN providers :
         init_history[n] = "none" => ~IsMarked(n)

\* The name "distil-whisper-pt", first registered with d1 (which a call
\* initialized), was registered again with f1, and a later call initialized f1
\* and invoked its transcribe.
C9_Witness ==
  \E c \in CallIds :
    /\ calls[c].last.called
    /\ calls[c].last.name = "distil-whisper-pt"
    /\ calls[c].last.inst = "f1"
    /\ calls[c].last.init = "ok"
    /\ initialization_complete["d1"]

\* C10: a failed initialization is not remembered: when the initialize the
\* manager last called for a name returned False, the next call reaching the
\* name calls initialize again, and when that returns True the name is
\* marked and the provider is used.
C10_FailedInitRetried ==
  \A c \in CallIds :
    LET a == calls[c].last IN
    /\ a.failed_before => a.init \in {"ok", "failed", "pending", "raised"}
    /\ (a.failed_before /\ a.init = "ok")
         => IsMarked(a.name) /\ (calls[c].pc = "transcribe" \/ a.called)
    /\ \A n \in DOMAIN init_history :
         init_history[n] = "failed" => ~IsMarked(n)

\* A call returned the Result of a provider whose initialization had failed in
\* an earlier call and succeeded in this one.
C10_Witness ==
  \E c \in CallIds :
    /\ calls[c].last.failed_before
    /\ calls[c].last.init = "ok"
    /\ Done(c)
    /\ calls[c].result = LastResult(c)
    /\ HasResult(c)

\* C11: right after clear_all_caches returns, the status of every registered
\* provider reports cache_size 0, whether or not the provider was ever
\* initialized and however many entries it held.
C11_ClearEmptiesEveryCache ==
  reply.op = "clear_all_caches"
    => \A n \in DOMAIN providers : get_status(providers[n]).cache_size = 0

\* clear_all_caches has just returned with two providers registered: one
\* that held an entry, one that was never initialized.
C11_Witness ==
  /\ reply.op = "clear_all_caches"
  /\ \E n \in DOMAIN providers : reply.before.cache_size[providers[n]] > 0
  /\ \E n \in DOMAIN providers : ~initialization_complete[providers[n]]

\* C12: a change of the primary provider, of the fallback list or of the
\* threshold made while a call is suspended on a provider operation does not
\* change the call's outcome: the call walks the chain and applies the
\* threshold that were configured when it started, so it passes over no
\* Result that meets that threshold and returns none that misses it.
C12_InFlightUnaffected ==
  \A c \in CallIds :
    /\ ~calls[c].bypassed
    /\ (Done(c) /\ ~Exhausted(c))
         => Acceptable(calls[c].result, calls[c].thr0)

\* C13: the chain a call walks is the primary name followed by the fallback
\* names as configured when transcribe_audio is invoked, not as they were at
\* registration or construction: with calls made one after another, a call's
\* chain is always the one the settings give now, and the candidate it is at,
\* or has just left, is the chain's entry at its position.
C13_ChainReadAtCall ==
  \A c \in CallIds :
    LET call == calls[c] IN
    call.pc # "idle"
      => /\ call.chain = <<settings.PRIMARY_PROVIDER>>
                           \o settings.FALLBACK_PROVIDERS
         /\ (call.pc \in {"init", "transcribe", "hash", "upload", "sleep",
                         "engine", "raised"}
               \/ (Done(c) /\ ~Exhausted(c)))
              => call.last.name = call.chain[call.idx]
         /\ (call.pc = "loop" /\ call.idx > 1)
              => call.last.name = call.chain[call.idx - 1]

\* After the primary was set to "faster-whisper" and the fallbacks to none,
\* a call invoked the provider registered under that name as its first and
\* only candidate.
C13_Witness ==
  \E c \in CallIds :
    /\ calls[c].chain = <<"faster-whisper">>
    /\ calls[c].last.called
    /\ calls[c].last.name = "faster-whisper"
    /\ Done(c)

\* Every Result there is: returned by a call, given by a provider to the
\* manager, returned by a provider earlier, or held in a cache.
Results ==
  { calls[c].result : c \in CallIds }
    \cup { calls[c].last.res : c \in CallIds }
    \cup { calls[c].last.prev : c \in CallIds }
    \cup UNION { { served[i][h].res : h \in DOMAIN served[i] } : i \in Instances }
    \cup UNION { { transcription_cache[i][h] : h \in DOMAIN transcription_cache[i] } :
                 i \in Instances }

\* C14: every Result with error_message set, whether a provider produced it
\* or the manager synthesized it, has an empty text and confidence 0.
C14_ErrorMeansEmpty ==
  /\ \A r \in Results :
       Truthy(r.error_message) => r.text = <<>> /\ r.confidence = 0
  /\ \A i \in Instances, l \in {"pt", "en"} :
       /\ NotInitializedResult(i, l).text = <<>>
       /\ NotInitializedResult(i, l).confidence = 0

\* A call ended with the manager's synthetic Result after the engine of its
\* last candidate had failed, the pipeline having returned only white space.
C14_Witness ==
  \E c \in CallIds :
    /\ Exhausted(c)
    /\ Truthy(calls[c].result.error_message)
    /\ HasResult(c)
    /\ Truthy(LastResult(c).error_message)
    /\ LastResult(c).processing_time > 0

\* C15: every Result without error_message that transcribe_audio returns has
\* a non-empty text and a confidence above 0.
C15_SuccessHasText ==
  \A c \in CallIds :
    (Done(c) /\ ~Truthy(calls[c].result.error_message))
      => calls[c].result.text # <<>> /\ calls[c].result.confidence > 0

\* The step call c takes from the head of the loop when the name of its
\* candidate is not registered.
AtUnregistered(c) ==
  /\ AtCandidate(c)
  /\ Candidate(c) \notin DOMAIN providers
  /\ calls'[c] # calls[c]

\* C16: a chain name that is not registered is skipped and is no error:
\* neither initialize nor transcribe is invoked for it, no provider state and
\* no initialized flag changes, and the call goes on to the candidate that
\* follows it in the chain (or to the end of the chain when it was the last).
C16_UnregisteredSkipped ==
  [][ \A c \in CallIds :
        AtUnregistered(c) =>
          /\ calls'[c].pc = "loop"
          /\ calls'[c].idx = calls[c].idx + 1
          /\ calls'[c].chain = calls[c].chain
          /\ calls'[c].provider = Null
          /\ calls'[c].last.name = Candidate(c)
          /\ ~calls'[c].last.called
          /\ ~calls'[c].last.engine
          /\ calls'[c].last.res = NoResult
          /\ calls'[c].result = calls[c].result
          /\ UNCHANGED << providers, initialized_providers,
                          initialization_complete, transcription_cache,
                          init_history, settings >> ]_vars

\* A call returned the Result of its second candidate, the first name of its
\* chain being neither registered nor marked.
C16_Witness ==
  \E c \in CallIds :
    /\ Done(c)
    /\ calls[c].idx = 2
    /\ Len(calls[c].chain) >= 3
    /\ calls[c].chain[1] \notin DOMAIN providers
    /\ calls[c].chain[1] \notin DOMAIN initialized_providers
    /\ calls[c].last.name = calls[c].chain[2]
    /\ calls[c].last.called
    /\ calls[c].result = LastResult(c)

\* Call c is inside GeminiProvider.transcribe.
InGeminiTranscribe(c) ==
  /\ calls[c].provider # Null
  /\ KindOf(calls[c].provider) = "gemini"
  /\ calls[c].pc \in {"hash", "upload", "sleep", "engine"}

\* C17: every GeminiProvider.transcribe call eventually returns a Result,
\* also when a Gemini operation never completes: a generate_content call
\* that hangs or a video that stays PROCESSING is cut off by the provider's
\* timeout, and the manager goes on.
C17_GeminiTranscribeReturns ==
  \A c \in CallIds : InGeminiTranscribe(c) ~> ~InGeminiTranscribe(c)

\* C18: shutdown empties the cache of every registered provider and leaves
\* the registry and every initialized flag as they were; the names stay
\* registered and marked, and a later transcribe_audio call that comes to
\* such a provider calls its transcribe without calling its initialize.
C18_ShutdownKeepsProviders ==
  /\ reply.op = "shutdown"
       => /\ providers = reply.before.providers
          /\ initialized_providers = reply.before.initialized_providers
          /\ initialization_complete = reply.before.initialized
          /\ \A n \in DOMAIN providers :
               get_status(providers[n]).cache_size = 0
          /\ kept = { n \in DOMAIN providers : IsMarked(n) }
  /\ \A n \in kept : n \in DOMAIN providers /\ IsMarked(n)
  /\ \A c \in CallIds :
       (calls[c].last.name \in kept /\ calls[c].last.inst # Null)
         => calls[c].last.init = "marked"

\* A call made after a shutdown returned the Result of a provider that was
\* initialized before the shutdown: its transcribe was called without an
\* initialize, and its engine ran again because its cache had been emptied.
C18_Witness ==
  \E c \in CallIds :
    /\ Done(c)
    /\ calls[c].last.name \in kept
    /\ calls[c].last.init = "marked"
    /\ calls[c].last.called
    /\ calls[c].last.engine
    /\ calls[c].result = LastResult(c)
    /\ initialization_complete[calls[c].last.inst]

\* C19: get_provider_status returns the status map of the provider registered
\* under the name and None when the name is not registered, and changes
\* nothing; get_all_providers_status returns a map whose keys are exactly the
\* registered names, each with the status of its provider, which has the
\* entries cache_size and initialized.
C19_StatusQueries ==
  /\ reply.op = "get_provider_status"
       => /\ reply.arg \in DOMAIN providers
               => reply.value = get_status(providers[reply.arg])
          /\ reply.arg \notin DOMAIN providers => reply.value = None
          /\ Snapshot = reply.before
  /\ reply.op = "get_all_providers_status"
       => /\ DOMAIN reply.value = DOMAIN providers
          /\ \A n \in DOMAIN providers :
               /\ reply.value[n] = get_status(providers[n])
               /\ {"cache_size", "initialized"} \subseteq DOMAIN reply.value[n]
          /\ Snapshot = reply.before

\* The status of a name that is not registered was asked for while a provider
\* with a loaded model and a cached Result was registered under another name:
\* the answer was None.
C19_Witness ==
  /\ reply.op = "get_provider_status"
  /\ reply.arg \notin DOMAIN providers
  /\ reply.value = None
  /\ \E n \in DOMAIN providers :
       /\ get_status(providers[n]).initialized
       /\ get_status(providers[n]).cache_size > 0

\* The positions at which a provider operation of the call is pending.
InProvider == {"tinit", "hash", "upload", "sleep", "engine"}

InFlight == {"loop", "init", "transcribe"} \cup InProvider

\* How far call c is from its end: the candidates it has left, and within a
\* candidate the steps the manager has left.
Measure(call) ==
  IF call.pc \notin InFlight THEN 0
  ELSE 5 * (Len(call.chain) + 1 - call.idx)
         + (CASE call.pc = "loop" -> 4
              [] call.pc = "init" -> 3
              [] call.pc = "transcribe" -> 2
              [] OTHER -> 1)

\* What holds of a call in flight at any time.
OneAtATime(call) ==
  /\ call.invoked <= Len(call.chain)
  /\ call.invoked <= call.idx
  /\ call.pc = "loop" => call.provider = Null /\ call.invoked < call.idx
  /\ call.pc \in InFlight \ {"loop"}
       => /\ call.idx <= Len(call.chain)
          /\ call.provider # Null
          /\ call.last.name = call.chain[call.idx]
          /\ call.last.inst = call.provider
  /\ call.pc \in {"init", "transcribe"} => ~call.last.called
  /\ call.pc \in InProvider => call.last.called

\* What holds of every step of a call in flight.
InChainOrder(old, new) ==
  /\ new.chain = old.chain
  /\ Measure(new) <= Measure(old)
  /\ Measure(new) = Measure(old)
       => old.pc \in InProvider /\ new.pc \in InProvider
  /\ new.invoked \in {old.invoked, old.invoked + 1}
  /\ new.invoked # old.invoked
       => /\ old.pc = "transcribe"
          /\ new.idx = old.idx
          /\ new.last.name = old.chain[old.idx]
  /\ new.idx # old.idx
       => /\ new.idx = old.idx + 1
          /\ new.pc = "loop"
          /\ new.last.name = old.chain[old.idx]
          /\ new.last.called => ~Accepts(new.last.res)
  /\ (new.pc = "done" /\ old.idx <= Len(old.chain))
       => /\ new.last.called
          /\ new.result = new.last.res
          /\ Accepts(new.result)
          /\ new.idx = old.idx

\* C20: within one transcribe_audio call the provider operations are issued
\* one at a time and in chain order: an operation of a candidate is pending
\* only for the candidate the call is at, the call leaves a candidate only
\* when its operation has completed and was rejected (or the candidate was
\* skipped), an accepted Result ends the call at once, transcribe is invoked
\* at most once per candidate and so at most Len(chain) times, and every step
\* of the manager brings the call nearer to its end while a step is always
\* possible, so that the call ends when every provider operation ends.
C20_OneAtATimeInOrder ==
  /\ [](\A c \in CallIds :
          /\ OneAtATime(calls[c])
          /\ calls[c].pc \in InFlight => ENABLED CallStep(c))
  /\ [][ \A c \in CallIds :
           (calls[c].pc \in InFlight /\ calls'[c] # calls[c])
             => InChainOrder(calls[c], calls'[c]) ]_vars

\* A call whose chain has three candidates returned the Result of the third:
\* the first two were invoked and rejected before, one after the other.
C20_Witness ==
  \E c \in CallIds :
    /\ Done(c)
    /\ Len(calls[c].chain) = 3
    /\ calls[c].idx = 3
    /\ calls[c].invoked = 3
    /\ calls[c].result = LastResult(c)

\* C21: once the manager has marked a name, _ensure_provider_initialized
\* returns True for it without calling provider.initialize: a name is marked
\* exactly when the manager's one initialize call since the name's
\* registration returned True, the mark and that record stay until the name
\* is registered again, and a call that comes to a marked name goes straight
\* to transcribe, no provider's loaded state changing.
C21_InitializedOnce ==
  /\ [](\A n \in DOMAIN providers :
          (init_history[n] = "ok")
            <=> (n \in DOMAIN initialized_providers /\ initialized_providers[n]))
  /\ [][ \A n \in DOMAIN providers :
           init_history[n] = "ok"
             => \/ /\ init_history'[n] = "ok"
                   /\ initialized_providers'[n]
                   /\ providers'[n] = providers[n]
                \/ /\ init_history'[n] = "none"
                   /\ ~initialized_providers'[n] ]_vars
  /\ [][ \A c \in CallIds :
           ( /\ AtCandidate(c)
             /\ Candidate(c) \in DOMAIN providers
             /\ init_history[Candidate(c)] = "ok"
             /\ calls'[c] # calls[c] )
             => /\ calls'[c].pc = "transcribe"
                /\ calls'[c].last.init = "marked"
                /\ calls'[c].provider = providers[Candidate(c)]
                /\ UNCHANGED << initialized_providers, initialization_complete,
                                init_history >> ]_vars

\* A call returned the Result of a provider whose name had been marked by an
\* earlier call: no initialize call was made for it this time.
C21_Witness ==
  \E c \in CallIds :
    /\ Done(c)
    /\ calls[c].last.init = "marked"
    /\ calls[c].last.called
    /\ init_history[calls[c].last.name] = "ok"
    /\ calls[c].result = LastResult(c)
    /\ calls[c].last.name \notin kept

\* The step in which the initialize call the manager made for the candidate
\* of call c returns False.
InitializeFails(c) ==
  /\ calls[c].pc \in {"loop", "init"}
  /\ calls'[c].last.init = "failed"
  /\ calls'[c].last # calls[c].last \/ calls'[c].idx # calls[c].idx

\* C22: when a candidate's initialize returns False during a call, the
\* manager does not invoke the candidate's transcribe in that call, leaves
\* the name unmarked, has called initialize once for that chain position,
\* and goes on to the next candidate.
C22_FailedInitSkips ==
  /\ [][ \A c \in CallIds :
           InitializeFails(c) =>
             LET name == Candidate(c) IN
             /\ calls'[c].pc = "loop"
             /\ calls'[c].idx = calls[c].idx + 1
             /\ calls'[c].chain = calls[c].chain
             /\ calls'[c].provider = Null
             /\ calls'[c].last.name = name
             /\ ~calls'[c].last.called
             /\ calls'[c].invoked = calls[c].invoked
             /\ calls'[c].result = calls[c].result
             /\ ~initialized_providers[name]
             /\ ~initialized_providers'[name]
             /\ init_history[name] \in
                  {"none", "failed", "raised", "pending"}
             /\ (calls[c].pc = "init") <=> (init_history[name] = "pending")
             /\ init_history'[name] = "failed"
             /\ UNCHANGED << providers, transcription_cache >> ]_vars
  /\ [](\A c \in CallIds :
          calls[c].last.init = "failed"
            => /\ ~calls[c].last.called
               /\ calls[c].last.res = NoResult
               /\ calls[c].pc \in {"loop", "done"}
               /\ calls[c].idx > 1
               /\ calls[c].last.name = calls[c].chain[calls[c].idx - 1])

\* A call returned the Result of its second candidate after the initialize
\* of its first, registered under another name, had returned False.
C22_Witness ==
  \E c \in CallIds :
    /\ Done(c)
    /\ calls[c].idx = 2
    /\ Len(calls[c].chain) >= 2
    /\ calls[c].chain[1] # calls[c].chain[2]
    /\ calls[c].chain[1] \in DOMAIN providers
    /\ init_history[calls[c].chain[1]] = "failed"
    /\ ~IsMarked(calls[c].chain[1])
    /\ calls[c].last.name = calls[c].chain[2]
    /\ calls[c].last.called
    /\ calls[c].invoked = 1
    /\ calls[c].result = LastResult(c)

\* The step in which the provider's transcribe returns an error Result to
\* call c.
ReturnsError(c) ==
  /\ calls[c].pc \in {"transcribe", "tinit", "hash", "upload", "sleep", "engine"}
  /\ calls'[c].last.res # NoResult
  /\ calls[c].last.res = NoResult
  /\ Truthy(calls'[c].last.res.error_message)

\* C23: a provider's cache only ever holds successful Results: no entry of a
\* cache has error_message set, a transcribe that returns an error Result
\* leaves every cache as it was, and a provider that returned an error
\* Result for a content does not answer the next call on it from its cache.
C23_OnlySuccessesCached ==
  /\ [](\A i \in Instances : \A h \in DOMAIN transcription_cache[i] :
          ~Truthy(transcription_cache[i][h].error_message))
  /\ [][ \A c \in CallIds :
           ReturnsError(c) => transcription_cache' = transcription_cache ]_vars
  /\ [](\A c \in CallIds :
          ( /\ calls[c].last.called
            /\ Truthy(calls[c].last.prev.error_message)
            /\ calls[c].last.res # NoResult )
            => /\ ~calls[c].last.hit
               /\ calls[c].last.engine \/ ~Dispatches(calls[c].last.inst,
                                                     calls[c].file))

\* A provider whose engine had failed on a content ran its engine again on
\* the next call on that content, and this time the Result was a success,
\* which is now in its cache.
C23_Witness ==
  \E c \in CallIds :
    /\ Done(c)
    /\ calls[c].last.called
    /\ Truthy(calls[c].last.prev.error_message)
    /\ calls[c].last.prev.processing_time > 0
    /\ calls[c].last.engine
    /\ ~calls[c].last.hit
    /\ ~Truthy(LastResult(c).error_message)
    /\ CacheKey(calls[c].file) \in DOMAIN transcription_cache[calls[c].last.inst]

\* History: the contents instance i has returned an error-free Result for
\* since its cache was last cleared.
Transcribed(i) ==
  { k \in DOMAIN served[i] : ~Truthy(served[i][k].res.error_message) }

\* C24: with calls made one after another, a cache entry once created is
\* neither changed nor evicted until the provider's clear_cache is called,
\* and the cache_size a provider reports is the number of distinct contents
\* it has transcribed successfully since its cache was last cleared.
C24_EntriesStay ==
  /\ [][ \A i \in Instances : \A h \in DOMAIN transcription_cache[i] :
           \/ /\ h \in DOMAIN transcription_cache'[i]
              /\ transcription_cache'[i][h] = transcription_cache[i][h]
           \/ /\ reply'.op \in {"clear_all_caches", "shutdown"}
              /\ i \in Cleared
              /\ transcription_cache'[i] = Empty ]_vars
  /\ [](\A i \in Instances :
          /\ get_status(i).cache_size = Cardinality(Transcribed(i))
          /\ DOMAIN transcription_cache[i]
               = { md5_update(0, k) : k \in Transcribed(i) }
          /\ \A k \in Transcribed(i) :
               transcription_cache[i][md5_update(0, k)] = served[i][k].res)

\* A provider holds two entries, for two contents it transcribed, and has
\* just answered a call on one of them from its cache.
C24_Witness ==
  \E c \in CallIds :
    /\ calls[c].last.hit
    /\ Done(c)
    /\ calls[c].last.inst # Null
    /\ get_status(calls[c].last.inst).cache_size = 2
    /\ calls[c].result = LastResult(c)

\* The step in which the provider's transcribe returns to call c a Result
\* without error whose confidence is below the threshold.
ReturnsBelowThreshold(c) ==
  /\ calls[c].pc \in {"hash", "upload", "sleep", "engine"}
  /\ calls[c].last.res = NoResult
  /\ calls'[c].last.res # NoResult
  /\ ~Truthy(calls'[c].last.res.error_message)
  /\ calls'[c].last.res.confidence < settings.CONFIDENCE_THRESHOLD

\* C25: what a provider returns and stores does not depend on
\* CONFIDENCE_THRESHOLD: a Result without error below the threshold is
\* returned to the manager, which goes on to the next candidate, and is in
\* the provider's cache afterwards; a later call on the same content gets
\* that same Result from the cache, the engine not running, and goes on to
\* the next candidate again.
C25_ProviderIgnoresThreshold ==
  /\ [][ \A c \in CallIds :
           ReturnsBelowThreshold(c) =>
             LET i == calls[c].provider
                 h == CacheKey(calls[c].file)
             IN  /\ h \in DOMAIN transcription_cache'[i]
                 /\ transcription_cache'[i][h] = calls'[c].last.res
                 /\ calls'[c].pc = "loop"
                 /\ calls'[c].idx = calls[c].idx + 1
                 /\ calls'[c].result = calls[c].result ]_vars
  /\ [](\A c \in CallIds :
          ( /\ Repeated(c)
            /\ ~Truthy(calls[c].last.prev.error_message)
            /\ calls[c].last.prev.confidence < calls[c].thr0 )
            => /\ LastResult(c) = calls[c].last.prev
               /\ calls[c].last.hit
               /\ ~calls[c].last.engine
               /\ ~(Done(c) /\ ~Exhausted(c))
               /\ calls[c].idx > 1
               /\ calls[c].last.name = calls[c].chain[calls[c].idx - 1])

\* A provider answered a call from its cache with the Result below the
\* threshold it had given before, and the call went on to the next
\* candidate.
C25_Witness ==
  \E c \in CallIds :
    /\ Repeated(c)
    /\ calls[c].pc = "loop"
    /\ calls[c].last.hit
    /\ ~Truthy(LastResult(c).error_message)
    /\ LastResult(c).text # <<>>
    /\ LastResult(c).confidence < calls[c].thr0
    /\ LastResult(c) = calls[c].last.prev

\* C26: provider.initialize never raises: every failure while the engine's
\* resources are loaded, the creation of the model cache directory included,
\* becomes a False return.
C26_InitializeNeverRaises ==
  /\ \A n \in DOMAIN init_history : init_history[n] # "raised"
  /\ \A c \in CallIds : calls[c].last.init # "raised"

\* C27: every segment of every Result's segments list has start <= end, also
\* for a Distil-Whisper chunk whose end timestamp is None.
C27_SegmentsOrdered ==
  \A r \in Results :
    \A k \in 1..Len(r.segments.items) :
      r.segments.items[k].start <= r.segments.items[k].end

\* C28: an initialized GeminiProvider's transcribe dispatches on the MIME
\* type of the file, whatever its cache holds: for an audio type the Result
\* has model_used "gemini-hybrid-audio", for a video type
\* "gemini-hybrid-video", and for any other type it is an error Result with
\* model_used "gemini-hybrid" and the message of an unsupported file type.
C28_GeminiDispatchesOnType ==
  \A c \in CallIds :
    ( /\ HasResult(c)
      /\ calls[c].last.inst # Null
      /\ KindOf(calls[c].last.inst) = "gemini" )
      => LET media == guess_type(calls[c].file.name)
             r == LastResult(c)
         IN  /\ media = "audio" => r.model_used = "gemini-hybrid-audio"
             /\ media = "video" => r.model_used = "gemini-hybrid-video"
             /\ media = Null
                  => /\ r.model_used = "gemini-hybrid"
                     /\ r = UnsupportedResult(calls[c].last.inst,
                                              calls[c].language)

\* The score the heuristic is said to give a text, before it is clamped.
HeuristicScore(text) ==
  800 + (IF \E k \in 1..Len(text) : text[k] = "[FALA]:" THEN 100 ELSE 0)
      - (IF str_len(strip(text)) < 50 THEN 200 ELSE 0)
      - (IF \E k \in 1..Len(text) : text[k] = "erro" THEN 400 ELSE 0)

\* The heuristic on every text of at most MaxTextLen tokens.
HeuristicOnEveryText ==
  \A text \in Texts :
    /\ calculate_gemini_confidence(text) >= 100
    /\ calculate_gemini_confidence(text) <= 950
    /\ calculate_gemini_confidence(text)
         = Max(100, Min(950, HeuristicScore(text)))

\* C29: the confidence of every successful Gemini Result is the heuristic
\* score of its text: 0.8, plus 0.1 for a structured marker, minus 0.2 for a
\* text of fewer than 50 characters, minus 0.4 for a failure phrase, clamped
\* into 0.1 .. 0.95; and so is the score of every text.
C29_GeminiConfidence ==
  /\ HeuristicOnEveryText
  /\ \A r \in Results :
       ( /\ r.model_used \in {"gemini-hybrid-audio", "gemini-hybrid-video"}
         /\ ~Truthy(r.error_message) )
         => /\ r.confidence = Max(100, Min(950, HeuristicScore(r.text)))
            /\ r.confidence >= 100
            /\ r.confidence <= 950

\* A call returned a Gemini Result whose text has a structured marker and is
\* long: its confidence is 0.9.
C29_Witness ==
  \E c \in CallIds :
    /\ Done(c)
    /\ calls[c].result = LastResult(c)
    /\ calls[c].last.engine
    /\ calls[c].result.model_used = "gemini-hybrid-audio"
    /\ ~Truthy(calls[c].result.error_message)
    /\ Contains(calls[c].result.text, "[FALA]:")
    /\ calls[c].result.confidence = 900

\* C30: every Result DistilWhisperProvider produces, a success or a failure,
\* has language "pt-BR" whatever language the caller asked for, while the
\* synthetic Result of an exhausted chain has the caller's language as given.
C30_DistilLanguageFixed ==
  /\ \A c \in CallIds :
       /\ ( /\ HasResult(c)
            /\ calls[c].last.inst # Null
            /\ KindOf(calls[c].last.inst) = "distil" )
            => LastResult(c).language = "pt-BR"
       /\ Exhausted(c) => calls[c].result.language = calls[c].language
  /\ \A i \in Instances :
       KindOf(i) = "distil"
         => /\ \A h \in DOMAIN transcription_cache[i] :
                 transcription_cache[i][h].language = "pt-BR"
            /\ \A k \in DOMAIN served[i] : served[i][k].res.language = "pt-BR"
            /\ \A l \in {"pt", "en"} :
                 NotInitializedResult(i, l).language = "pt-BR"

\* A call asked for "en": Distil-Whisper, its last candidate, returned an
\* error Result whose language is "pt-BR", and the call ended with the
\* synthetic Result, whose language is "en".
C30_Witness ==
  \E c \in CallIds :
    /\ Exhausted(c)
    /\ calls[c].language = "en"
    /\ calls[c].result.language = "en"
    /\ HasResult(c)
    /\ KindOf(calls[c].last.inst) = "distil"
    /\ calls[c].last.engine
    /\ LastResult(c).language = "pt-BR"

\* C31: the providers' caches are isolated: a step of a call changes the
\* cache of the one provider whose transcribe is returning to it, and of no
\* other; the manager's clear operations aside, no cache changes otherwise;
\* and when a call has returned a Result without error that provider P
\* produced, P reports a cache_size above 0.
C31_CachesIsolated ==
  /\ [][ \A i \in Instances :
           transcription_cache'[i] # transcription_cache[i]
             => \/ /\ reply'.op \in {"clear_all_caches", "shutdown"}
                   /\ i \in Cleared
                \/ \E c \in CallIds :
                     /\ calls[c].provider = i
                     /\ calls[c].pc = "engine"
                     /\ calls[c].last.called
                     /\ calls'[c].last.res # NoResult
                     /\ \A j \in Instances \ {i} :
                          transcription_cache'[j] = transcription_cache[j] ]_vars
  /\ [](\A c \in CallIds :
          ( /\ Done(c)
            /\ ~Exhausted(c)
            /\ ~Truthy(calls[c].result.error_message) )
            => get_status(calls[c].last.inst).cache_size > 0)

\* A call invoked two providers: the first failed and its cache is empty,
\* the second produced the Result the call returned and holds one entry.
C31_Witness ==
  \E c \in CallIds :
    /\ Done(c)
    /\ calls[c].idx = 2
    /\ calls[c].invoked = 2
    /\ calls[c].result = LastResult(c)
    /\ ~Truthy(calls[c].result.error_message)
    /\ calls[c].chain[1] \in DOMAIN providers
    /\ providers[calls[c].chain[1]] # calls[c].last.inst
    /\ get_status(providers[calls[c].chain[1]]).cache_size = 0
    /\ get_status(calls[c].last.inst).cache_size = 1

\* C32: two calls for the same content that both missed the cache of the same
\* provider both have their engine invoked, and each gets the Result built
\* from its own engine outcome, not the other's; a provider's cache entry for
\* a hash appears or changes only when a transcribe of that provider for that
\* hash returns from its engine without error, and is then the Result that
\* transcribe returns: the one entry for the hash is the Result written last.
C32_LastWriteWins ==
  [][ /\ \A c \in CallIds :
           (calls[c].pc = "engine" /\ calls'[c].pc # "engine")
             => LET i == calls[c].provider
                    h == calls[c].file_hash
                    r == calls'[c].last.res
                IN  /\ calls[c].last.engine /\ ~calls'[c].last.hit
                    /\ h = CacheKey(calls[c].file)
                    /\ \E out \in EngineOutputs(KindOf(i)) :
                         r = EngineResult(i, calls[c].language,
                                          calls[c].file, out)
                    /\ ~Truthy(r.error_message)
                         => /\ h \in DOMAIN transcription_cache'[i]
                            /\ transcription_cache'[i][h] = r
                            /\ DOMAIN transcription_cache'[i] =
                                 DOMAIN transcription_cache[i] \cup {h}
      /\ \A i \in Instances : \A h \in DOMAIN transcription_cache'[i] :
           ( \/ h \notin DOMAIN transcription_cache[i]
             \/ transcription_cache'[i][h] # transcription_cache[i][h] )
             => \E c \in CallIds :
                  /\ calls[c].pc = "engine"
                  /\ calls[c].provider = i
                  /\ calls[c].file_hash = h
                  /\ calls'[c].last.res = transcription_cache'[i][h] ]_vars

\* With no manager operation in between, two calls for the same content both
\* missed the cache of the same provider, both had the engine invoked and got
\* different error-free Results; the cache holds one entry, the Result of the
\* second call, which is not the Result the first call got.
C32_Witness ==
  LET a == calls[1]
      b == calls[2]
      i == a.last.inst
      h == CacheKey(a.file)
  IN
  /\ concurrent
  /\ nSteps = 0
  /\ a.pc \notin {"idle", "engine"} /\ b.pc \notin {"idle", "engine"}
  /\ a.last.engine /\ b.last.engine
  /\ ~a.last.hit /\ ~b.last.hit
  /\ b.last.inst = i
  /\ a.file.readable /\ CacheKey(b.file) = h
  /\ a.last.res # NoResult /\ b.last.res # NoResult
  /\ ~Truthy(a.last.res.error_message)
  /\ ~Truthy(b.last.res.error_message)
  /\ a.last.res # b.last.res
  /\ DOMAIN transcription_cache[i] = {h}
  /\ transcription_cache[i][h] = b.last.res

\* C33: in every reachable state, the interleavings in which register_provider
\* replaces a name while a call is suspended inside that name's
\* provider.initialize included, a name whose initialized flag is true has
\* registered under it an instance that has itself completed initialization.
C33_MarkedMeansLoaded ==
  \A n \in DOMAIN providers :
    IsMarked(n) => initialization_complete[providers[n]]

\* C34: when two concurrent calls reach the same provider before it is
\* initialized, the heavyweight load inside its initialize is executed at most
\* once: no two flows are inside the load of the same instance.
C34_LoadedAtMostOnce ==
  \A c, d \in CallIds :
    ( /\ c # d
      /\ calls[c].pc \in {"init", "tinit"}
      /\ calls[d].pc \in {"init", "tinit"} )
      => calls[c].provider # calls[d].provider

\* C35: a provider's cache lookup depends on the content hash alone: a
\* transcribe whose content is in the provider's cache returns the entry as
\* it is, the language of the Result included, whatever the language
\* argument of the call, without invoking the engine and without changing
\* the cache.
C35_LookupIgnoresLanguage ==
  [][ \A c \in CallIds :
        LET i == calls[c].provider
            h == CacheKey(calls[c].file)
        IN
        ( /\ calls[c].pc = "hash"
          /\ calls[c].file.readable
          /\ h \in DOMAIN transcription_cache[i]
          /\ calls'[c] # calls[c] )
          => /\ calls'[c].last.res = transcription_cache[i][h]
             /\ calls'[c].last.hit
             /\ ~calls'[c].last.engine
             /\ calls'[c].pc \notin {"engine", "upload", "sleep"}
             /\ transcription_cache' = transcription_cache ]_vars

\* A call made with language "en" was answered from the cache with a Result
\* whose language is "pt", stored by an earlier call on the same content.
C35_Witness ==
  \E c \in CallIds :
    /\ calls[c].last.hit
    /\ ~calls[c].last.engine
    /\ calls[c].language = "en"
    /\ LastResult(c) # NoResult
    /\ LastResult(c).language = "pt"
    /\ calls[c].file.readable
    /\ CacheKey(calls[c].file) \in DOMAIN transcription_cache[calls[c].last.inst]
    /\ transcription_cache[calls[c].last.inst][CacheKey(calls[c].file)]
         = LastResult(c)

\* C36: a call that was suspended inside a provider's engine invocation when
\* clear_all_caches ran does not repopulate a cache when it resumes: when
\* clear_all_caches is the operation that has just completed and a call that
\* was in its engine invocation all along resumes, the cache of every
\* registered provider is still empty afterwards.
C36_ClearedStaysEmpty ==
  [][ \A c \in CallIds :
        ( /\ reply.op = "clear_all_caches"
          /\ calls[c].pc = "engine"
          /\ calls'[c].pc # "engine" )
          => \A i \in Cleared : transcription_cache'[i] = Empty ]_vars

\* C37: after any sequence of register_provider, transcribe_audio,
\* clear_all_caches, status and shutdown operations the initialized-flag map
\* has the key set of the provider registry; a step of a transcribe_audio
\* call adds no name, removes none, replaces no registered instance, and
\* changes a flag only from false to true.
C37_FlagsFollowRegistry ==
  /\ [](DOMAIN initialized_providers = DOMAIN providers)
  /\ [][ calls' # calls
           => /\ providers' = providers
              /\ DOMAIN initialized_providers' = DOMAIN initialized_providers
              /\ \A n \in DOMAIN initialized_providers :
                   initialized_providers'[n] # initialized_providers[n]
                     => ~initialized_providers[n] /\ initialized_providers'[n]
      ]_vars

\* Two names are registered; a call had the provider of one initialized, and
\* that name's flag is true, while the other name's flag is still false.
C37_Witness ==
  \E c \in CallIds :
    /\ calls[c].pc # "idle"
    /\ calls[c].last.init = "ok"
    /\ IsMarked(calls[c].last.name)
    /\ \E n \in DOMAIN providers :
         n # calls[c].last.name /\ ~initialized_providers[n]
    /\ DOMAIN initialized_providers = DOMAIN providers

\* C38: register_provider called with an object that does not implement the
\* provider interface raises TypeError and leaves the registry and every
\* initialized flag as they were, also when the name is already registered:
\* the instance registered under the name and its flag are kept.
C38_RejectsNonProvider ==
  [][ ( /\ reply' # reply
        /\ reply'.op = "register_provider"
        /\ ~is_provider(reply'.arg[2]) )
        => /\ reply'.value = TypeError
           /\ providers' = providers
           /\ initialized_providers' = initialized_providers
           /\ initialization_complete' = initialization_complete
           /\ transcription_cache' = transcription_cache ]_vars

\* register_provider has just raised TypeError for an object given under a
\* name that is registered and whose flag is true: the flag is still true.
C38_Witness ==
  /\ reply.op = "register_provider"
  /\ reply.value = TypeError
  /\ reply.arg[2] \in NonProviders
  /\ reply.arg[1] \in DOMAIN providers
  /\ providers[reply.arg[1]] \in Instances
  /\ IsMarked(reply.arg[1])
  /\ initialization_complete[providers[reply.arg[1]]]

====
